---- MODULE Spec2Model ----
(***************************************************************************)
(* bwrss: synchronisation of declared secret files between git             *)
(* repositories / the home directory and a Bitwarden vault.                *)
(*                                                                         *)
(* Text is a sequence of one-character strings ("\n" separates lines,      *)
(* "NUL" stands for the byte 0).  An optional value is a set: {} is        *)
(* undefined, {v} is the value v.  A Record<string,string> is a sequence   *)
(* of [k, v] entries with distinct keys, in insertion order.               *)
(***************************************************************************)
EXTENDS Integers, Sequences, FiniteSets, TLC

\* ------------------------------------------------------------------------
\* Bounds of the model
\* ------------------------------------------------------------------------

\* number of repositories findRepos returns for a repository command
NumRepos == 2

\* ------------------------------------------------------------------------
\* Optional values and key/value records
\* ------------------------------------------------------------------------

Undefined == {}

Some(v) == {v}

IsDefined(o) == o # {}

The(o) == CHOOSE v \in o : TRUE

Range(s) == {s[i] : i \in 1..Len(s)}

HasKey(m, key) == \E i \in 1..Len(m) : m[i].k = key

Lookup(m, key) == m[CHOOSE i \in 1..Len(m) : m[i].k = key].v

\* obj[key] = value on a JS object: in place when the key exists, else appended
SetKey(m, key, value) ==
  IF HasKey(m, key)
  THEN [i \in 1..Len(m) |-> IF m[i].k = key THEN [k |-> key, v |-> value] ELSE m[i]]
  ELSE Append(m, [k |-> key, v |-> value])

\* delete obj[key]
DeleteKey(m, key) == SelectSeq(m, LAMBDA e : e.k # key)

\* ------------------------------------------------------------------------
\* util/dotpath.ts: glob matching of flat keys
\* ------------------------------------------------------------------------

\* The regular expression matchGlob builds, as a token list: "**" becomes ".*"
\* (ANY), a remaining "*" becomes "[^.]*" (SEG), "." becomes "\." (the
\* literal); every other character is copied as it is, so that "+" stays the
\* quantifier of the regular expression (PLUS).  Of the characters special in
\* a regular expression, "+" is the one in the alphabets used here.
RECURSIVE globTokens(_)
globTokens(pattern) ==
  IF pattern = <<>> THEN <<>>
  ELSE IF pattern[1] = "*" /\ Len(pattern) >= 2 /\ pattern[2] = "*"
       THEN <<"ANY">> \o globTokens(SubSeq(pattern, 3, Len(pattern)))
  ELSE IF pattern[1] = "*"
       THEN <<"SEG">> \o globTokens(Tail(pattern))
  ELSE IF pattern[1] = "+"
       THEN <<"PLUS">> \o globTokens(Tail(pattern))
  ELSE <<pattern[1]>> \o globTokens(Tail(pattern))

\* a single "*" that matches like "**"
globTokensStarCrossesDots(pattern) ==
  [i \in 1..Len(globTokens(pattern)) |->
     IF globTokens(pattern)[i] = "SEG" THEN "ANY" ELSE globTokens(pattern)[i]]

\* the tokens matchGlob hands to the RegExp constructor
regexTokens(pattern) == globTokens(pattern)

\* new RegExp(...) throws a SyntaxError ("nothing to repeat") when "+" comes
\* first or follows a quantifier
regexCompiles(toks) ==
  \A i \in 1..Len(toks) :
     toks[i] = "PLUS" => (i > 1 /\ toks[i - 1] \notin {"ANY", "SEG", "PLUS"})

\* regex.test(key) for "^" + ... + "$"; "." of the regular expression matches
\* every character but a line terminator
RECURSIVE regexTest(_, _)
regexTest(toks, key) ==
  IF toks = <<>> THEN key = <<>>
  ELSE IF toks[1] = "ANY"
       THEN \E n \in 0..Len(key) :
              /\ \A i \in 1..n : key[i] # "\n"
              /\ regexTest(Tail(toks), SubSeq(key, n + 1, Len(key)))
  ELSE IF toks[1] = "SEG"
       THEN \E n \in 0..Len(key) :
              /\ \A i \in 1..n : key[i] # "."
              /\ regexTest(Tail(toks), SubSeq(key, n + 1, Len(key)))
  ELSE IF Len(toks) >= 2 /\ toks[2] = "PLUS"
       THEN \E n \in 1..Len(key) :
              /\ \A i \in 1..n : key[i] = toks[1]
              /\ regexTest(SubSeq(toks, 3, Len(toks)), SubSeq(key, n + 1, Len(key)))
  ELSE key # <<>> /\ key[1] = toks[1] /\ regexTest(Tail(toks), Tail(key))

\* matchGlob throws the SyntaxError of the RegExp constructor
matchGlobThrows(pattern) == ~regexCompiles(regexTokens(pattern))

\* matchGlob where it returns
matchGlob(key, pattern) ==
  regexCompiles(regexTokens(pattern)) /\ regexTest(regexTokens(pattern), key)

\* a filter that lets every pair through
filterByPatternsKeepsAll(data, patterns) == data

filterByPatterns(data, patterns) ==
  SelectSeq(data, LAMBDA e : \E i \in 1..Len(patterns) : matchGlob(e.k, patterns[i]))

\* ------------------------------------------------------------------------
\* parsers/ini.ts: KEY=VALUE files
\* ------------------------------------------------------------------------

IsSpace(c) == c \in {" ", "\t"}

RECURSIVE trimStart(_)
trimStart(s) == IF s # <<>> /\ IsSpace(s[1]) THEN trimStart(Tail(s)) ELSE s

RECURSIVE trimEnd(_)
trimEnd(s) ==
  IF s # <<>> /\ IsSpace(s[Len(s)]) THEN trimEnd(SubSeq(s, 1, Len(s) - 1)) ELSE s

trim(s) == trimEnd(trimStart(s))

\* String.prototype.indexOf, 1-based; 0 when the character does not occur
indexOf(s, c) ==
  IF \E i \in 1..Len(s) : s[i] = c
  THEN CHOOSE i \in 1..Len(s) : s[i] = c /\ \A j \in 1..(i - 1) : s[j] # c
  ELSE 0

\* content.split("\n")
RECURSIVE splitLines(_)
splitLines(s) ==
  LET nl == indexOf(s, "\n")
  IN  IF nl = 0 THEN <<s>>
      ELSE <<SubSeq(s, 1, nl - 1)>> \o splitLines(SubSeq(s, nl + 1, Len(s)))

\* lines.join("\n")
RECURSIVE joinLines(_)
joinLines(lines) ==
  IF lines = <<>> THEN <<>>
  ELSE IF Len(lines) = 1 THEN lines[1]
  ELSE lines[1] \o <<"\n">> \o joinLines(Tail(lines))

\* a line that is neither blank, nor a comment, nor without "="
IsAssignment(line) ==
  LET trimmed == trim(line)
  IN  trimmed # <<>> /\ trimmed[1] # "#" /\ indexOf(trimmed, "=") # 0

lineKey(line) ==
  LET trimmed == trim(line)
  IN  trim(SubSeq(trimmed, 1, indexOf(trimmed, "=") - 1))

\* the value of an assignment line, one level of surrounding quotes stripped
lineValue(line) ==
  LET trimmed == trim(line)
      value   == trim(SubSeq(trimmed, indexOf(trimmed, "=") + 1, Len(trimmed)))
      quoted  == /\ value # <<>>
                 /\ \/ value[1] = "\"" /\ value[Len(value)] = "\""
                    \/ value[1] = "'" /\ value[Len(value)] = "'"
  IN  IF quoted THEN SubSeq(value, 2, Len(value) - 1) ELSE value

RECURSIVE iniParseLines(_, _)
iniParseLines(lines, result) ==
  IF lines = <<>> THEN result
  ELSE IF IsAssignment(lines[1])
       THEN iniParseLines(Tail(lines), SetKey(result, lineKey(lines[1]), lineValue(lines[1])))
  ELSE iniParseLines(Tail(lines), result)

iniParse(content) == iniParseLines(splitLines(content), <<>>)

iniExtract(content, patterns) == filterByPatterns(iniParse(content), patterns)

RECURSIVE formatEntries(_)
formatEntries(m) ==
  IF m = <<>> THEN <<>>
  ELSE <<m[1].k \o <<"=">> \o m[1].v>> \o formatEntries(Tail(m))

\* Properties every object inherits from Object.prototype, with the text a
\* template literal makes of their value (two of them are listed).
ObjectPrototype ==
  << [k |-> <<"t", "o", "S", "t", "r", "i", "n", "g">>,
      v |-> <<"function toString() { [native code] }">>],
     [k |-> <<"c", "o", "n", "s", "t", "r", "u", "c", "t", "o", "r">>,
      v |-> <<"function Object() { [native code] }">>] >>

\* key in obj: own and inherited properties
In(key, obj) == HasKey(obj, key) \/ HasKey(ObjectPrototype, key)

\* `${obj[key]}`
Get(obj, key) ==
  IF HasKey(obj, key) THEN Lookup(obj, key) ELSE Lookup(ObjectPrototype, key)

RECURSIVE iniMergeLines(_, _, _)
iniMergeLines(lines, remaining, result) ==
  IF lines = <<>> THEN result \o formatEntries(remaining)
  ELSE IF IsAssignment(lines[1]) /\ In(lineKey(lines[1]), remaining)
       THEN LET key == lineKey(lines[1])
            IN  iniMergeLines(Tail(lines), DeleteKey(remaining, key),
                              Append(result, key \o <<"=">> \o Get(remaining, key)))
  ELSE iniMergeLines(Tail(lines), remaining, Append(result, lines[1]))

iniMerge(existingContent, keys) ==
  joinLines(iniMergeLines(splitLines(existingContent), keys, <<>>))

\* ------------------------------------------------------------------------
\* Nested documents: what JSON.parse, TOML.parse and YAML decode a text to
\* ------------------------------------------------------------------------

\* A value is [kind, text, entries]: a string or a number with its text, an
\* array with the text String() gives for it, or a mapping with its entries
\* in order.  The entries of an array are the properties set on it besides
\* its elements; no encoder writes them.
Str(text) == [kind |-> "string", text |-> text, entries |-> <<>>]

Num(text) == [kind |-> "number", text |-> text, entries |-> <<>>]

Arr(text) == [kind |-> "array", text |-> text, entries |-> <<>>]

Obj(entries) == [kind |-> "object", text |-> <<>>, entries |-> entries]

\* String(value) of a value that is not a mapping
String(value) == value.text

\* obj[key], undefined when the key is absent
Child(obj, key) ==
  IF HasKey(obj.entries, key) THEN Some(Lookup(obj.entries, key)) ELSE Undefined

\* obj[key] = value
SetChild(obj, key, value) == [obj EXCEPT !.entries = SetKey(@, key, value)]

\* path.split("."), the segments of a dot-path made of plain names
RECURSIVE splitDots(_)
splitDots(path) ==
  LET at == indexOf(path, ".")
  IN  IF at = 0 THEN <<path>>
      ELSE <<SubSeq(path, 1, at - 1)>> \o splitDots(SubSeq(path, at + 1, Len(path)))

\* flatten: one entry per value that is not a mapping, keyed by its dot-path,
\* with the value's string; arrays are leaves
RECURSIVE flattenInto(_, _, _)
flattenInto(result, entries, prefix) ==
  IF entries = <<>> THEN result
  ELSE LET key   == entries[1].k
           value == entries[1].v
           path  == IF prefix # <<>> THEN prefix \o <<".">> \o key ELSE key
           next  == IF value.kind = "object"
                    THEN flattenInto(result, value.entries, path)
                    ELSE SetKey(result, path, String(value))
       IN  flattenInto(next, Tail(entries), prefix)

flatten(obj, prefix) == flattenInto(<<>>, obj.entries, prefix)

\* dot-prop isObject: typeof value is "object" (or "function") and not null
isObject(value) == value.kind \in {"object", "array"}

\* dot-prop setProperty on the segments of a path: a segment before the last
\* that holds no object gets a new mapping, the last segment gets the value.
\* An array on the way is an object: the next segment becomes a property of
\* the array.
RECURSIVE setSegments(_, _, _)
setSegments(obj, segments, value) ==
  LET key == Head(segments)
      cur == Child(obj, key)
  IN  IF Len(segments) = 1 THEN SetChild(obj, key, Str(value))
      ELSE LET inner == IF IsDefined(cur) /\ isObject(The(cur)) THEN The(cur) ELSE Obj(<<>>)
           IN  SetChild(obj, key, setSegments(inner, Tail(segments), value))

setProperty(obj, path, value) == setSegments(obj, splitDots(path), value)

setPath(obj, path, value) == setProperty(obj, path, value)

\* the loop "for (const [path, value] of Object.entries(keys)) setPath(...)"
RECURSIVE setPaths(_, _)
setPaths(obj, keys) ==
  IF keys = <<>> THEN obj
  ELSE setPaths(setPath(obj, keys[1].k, keys[1].v), Tail(keys))

\* an unflatten that assigns every path as one top-level key
unflattenFlat(flat) ==
  Obj([i \in 1..Len(flat) |-> [k |-> flat[i].k, v |-> Str(flat[i].v)]])

unflatten(flat) == setPaths(Obj(<<>>), flat)

\* what an encoder (JSON.stringify, TOML.stringify) writes of a value and a
\* decoder reads back: the elements of an array, not its other properties
RECURSIVE EncodedEntries(_)
Encoded(value) ==
  IF value.kind = "object" THEN Obj(EncodedEntries(value.entries))
  ELSE [value EXCEPT !.entries = <<>>]

EncodedEntries(entries) ==
  IF entries = <<>> THEN <<>>
  ELSE <<[k |-> entries[1].k, v |-> Encoded(entries[1].v)]>> \o EncodedEntries(Tail(entries))

\* the value at a dot-path of a document, undefined when there is none
RECURSIVE AtSegments(_, _)
AtSegments(value, segments) ==
  IF segments = <<>> THEN Some(value)
  ELSE IF value.kind # "object" \/ ~HasKey(value.entries, Head(segments)) THEN Undefined
  ELSE AtSegments(Lookup(value.entries, Head(segments)), Tail(segments))

At(value, path) == AtSegments(value, splitDots(path))

\* ------------------------------------------------------------------------
\* parsers/json.ts
\* ------------------------------------------------------------------------

\* A JSON text is [doc, layout]: the value it denotes and what JSON.parse
\* does not keep of the text, [lead, indent, newline]: the number of
\* whitespace characters before the first other character, the number of
\* spaces its first indented line starts with (0 when no line is indented),
\* and whether it ends with a newline.
JsonText(value, lead, indent, newline) ==
  [doc |-> value, layout |-> [lead |-> lead, indent |-> indent, newline |-> newline]]

JSONparse(content) == content.doc

\* JSON.stringify(obj, null, indent): nothing before the first character, the
\* members of a mapping that has some on lines of their own, no final newline
JSONstringify(obj, indent) ==
  JsonText(Encoded(obj), 0, IF obj.entries = <<>> THEN 0 ELSE indent, FALSE)

\* /^[\s]*[^\s]/m matches at the start of the text: the length of the match
\* less one is the number of whitespace characters the text starts with
detectJsonIndent(content) ==
  IF content.layout.lead > 0 THEN content.layout.lead ELSE 2

jsonParse(content) == flatten(JSONparse(content), <<>>)

jsonExtract(content, patterns) == filterByPatterns(jsonParse(content), patterns)

jsonMerge(existingContent, keys) ==
  LET obj    == setPaths(JSONparse(existingContent), keys)
      indent == detectJsonIndent(existingContent)
  IN  [JSONstringify(obj, indent) EXCEPT !.layout.newline = TRUE]

\* ------------------------------------------------------------------------
\* parsers/yaml.ts
\* ------------------------------------------------------------------------

\* A YAML text is [doc, layout]: the mapping it denotes and what YAML.parse
\* does not keep of it, [indent, comments]: the number of spaces a nested
\* line is indented by (0 when the text has no nested line), and where the
\* text has comment lines: <<>> for the lines before the first key, the path
\* of a collection for lines between its members.
YamlText(value, indent, comments) ==
  [doc |-> value, layout |-> [indent |-> indent, comments |-> comments]]

YAMLparse(content) == content.doc

\* the document YAML.parseDocument returns keeps the comments with the nodes
YAMLparseDocument(content) == content

\* a document has nested lines when one of its values is a mapping with members
HasNested(value) ==
  \E i \in 1..Len(value.entries) :
    value.entries[i].v.kind = "object" /\ value.entries[i].v.entries # <<>>

\* Document.toString writes the nodes with their comments, nested lines
\* indented by 2
YAMLtoString(document) ==
  [document EXCEPT !.layout.indent = IF HasNested(document.doc) THEN 2 ELSE 0]

\* collectionFromPath: the mappings for the rest of a path, around the value
RECURSIVE collectionFromPath(_, _)
collectionFromPath(segments, value) ==
  IF segments = <<>> THEN Str(value)
  ELSE Obj(<<[k |-> Head(segments), v |-> collectionFromPath(Tail(segments), value)]>>)

\* Collection.setIn on a node: [threw, value].  A sequence takes no name as
\* index, and a scalar on the way is no collection: both throw.
RECURSIVE setIn(_, _, _)
setIn(node, segments, value) ==
  LET key == Head(segments)
      cur == Child(node, key)
  IN  IF node.kind = "array" THEN [threw |-> TRUE, value |-> node]
      ELSE IF Len(segments) = 1
      THEN [threw |-> FALSE, value |-> SetChild(node, key, Str(value))]
      ELSE IF IsDefined(cur) /\ isObject(The(cur))
      THEN LET r == setIn(The(cur), Tail(segments), value)
           IN  [threw |-> r.threw, value |-> SetChild(node, key, r.value)]
      ELSE IF ~IsDefined(cur)
      THEN [threw |-> FALSE,
            value |-> SetChild(node, key, collectionFromPath(Tail(segments), value))]
      ELSE [threw |-> TRUE, value |-> node]

\* the loop "for (const [path, value] of Object.entries(keys)) doc.setIn(...)"
RECURSIVE setInAll(_, _)
setInAll(node, keys) ==
  IF keys = <<>> THEN [threw |-> FALSE, value |-> node]
  ELSE LET r == setIn(node, splitDots(keys[1].k), keys[1].v)
       IN  IF r.threw THEN r ELSE setInAll(r.value, Tail(keys))

yamlParse(content) == flatten(YAMLparse(content), <<>>)

yamlExtract(content, patterns) == filterByPatterns(yamlParse(content), patterns)

\* whether yamlParser.merge ends by an exception
yamlMergeThrows(existingContent, keys) ==
  setInAll(YAMLparseDocument(existingContent).doc, keys).threw

\* the comments of the nodes that are still in the document: those of a
\* collection go with the collection when a value is set in its place
keptComments(comments, value) ==
  {at \in comments : at = <<>> \/ (IsDefined(At(value, at)) /\ isObject(The(At(value, at))))}

\* a merge by YAML.parse and YAML.stringify: the comments are not written
yamlMergeReencoded(existingContent, keys) ==
  YamlText(setInAll(YAMLparse(existingContent), keys).value,
           IF HasNested(setInAll(YAMLparse(existingContent), keys).value) THEN 2 ELSE 0,
           {})

\* the text yamlParser.merge returns when it returns one
yamlMerge(existingContent, keys) ==
  LET document == YAMLparseDocument(existingContent)
      value    == setInAll(document.doc, keys).value
  IN  YAMLtoString([document EXCEPT !.doc = value,
                                    !.layout.comments = keptComments(@, value)])

\* ------------------------------------------------------------------------
\* parsers/toml.ts
\* ------------------------------------------------------------------------

\* A TOML text is [doc, layout]: the table it denotes and what TOML.parse
\* does not keep of it, [written, comments]: whether the text is laid out as
\* TOML.stringify writes a table, and whether it has comments.
TomlText(value, asWritten, comments) ==
  [doc |-> value, layout |-> [written |-> asWritten, comments |-> comments]]

TOMLparse(content) == content.doc

\* TOML.stringify writes the values of a table that are no tables first and
\* its tables after them, and of an array its elements
RECURSIVE TomlEncoded(_)
TomlEncodedEntries(entries) ==
  LET each == [i \in 1..Len(entries) |->
                 [k |-> entries[i].k, v |-> TomlEncoded(entries[i].v)]]
  IN  SelectSeq(each, LAMBDA e : e.v.kind # "object")
        \o SelectSeq(each, LAMBDA e : e.v.kind = "object")

TomlEncoded(value) ==
  IF value.kind = "object" THEN Obj(TomlEncodedEntries(value.entries))
  ELSE [value EXCEPT !.entries = <<>>]

TOMLstringify(obj) == TomlText(TomlEncoded(obj), TRUE, FALSE)

RECURSIVE deepMerge(_, _)

\* a merge that assigns every top-level value of the source
deepMergeShallow(target, source) ==
  LET RECURSIVE assign(_, _)
      assign(t, entries) ==
        IF entries = <<>> THEN t
        ELSE assign(SetChild(t, entries[1].k, entries[1].v), Tail(entries))
  IN  assign(target, source.entries)

\* deepMerge: a mapping of the source goes into the value of the target that
\* is an object (a table, or an array), every other value is assigned
deepMerge(target, source) ==
  LET RECURSIVE loop(_, _)
      loop(t, entries) ==
        IF entries = <<>> THEN t
        ELSE LET key   == entries[1].k
                 value == entries[1].v
                 cur   == Child(t, key)
             IN  IF value.kind = "object" /\ IsDefined(cur) /\ isObject(The(cur))
                 THEN loop(SetChild(t, key, deepMerge(The(cur), value)), Tail(entries))
                 ELSE loop(SetChild(t, key, value), Tail(entries))
  IN  loop(target, source.entries)

tomlParse(content) == flatten(TOMLparse(content), <<>>)

tomlExtract(content, patterns) == filterByPatterns(tomlParse(content), patterns)

tomlMerge(existingContent, keys) ==
  LET obj    == TOMLparse(existingContent)
      nested == unflatten(keys)
  IN  TOMLstringify(deepMerge(obj, nested))

\* ------------------------------------------------------------------------
\* parsers/index.ts: parser dispatch
\* ------------------------------------------------------------------------

UpperChars == <<"A", "B", "C", "D", "E", "F", "G", "H", "I", "J", "K", "L", "M",
                "N", "O", "P", "Q", "R", "S", "T", "U", "V", "W", "X", "Y", "Z">>

LowerChars == <<"a", "b", "c", "d", "e", "f", "g", "h", "i", "j", "k", "l", "m",
                "n", "o", "p", "q", "r", "s", "t", "u", "v", "w", "x", "y", "z">>

toLowerCase(s) ==
  [i \in 1..Len(s) |->
     IF \E j \in 1..Len(UpperChars) : UpperChars[j] = s[i]
     THEN LowerChars[CHOOSE j \in 1..Len(UpperChars) : UpperChars[j] = s[i]]
     ELSE s[i]]

\* String.prototype.lastIndexOf, 1-based; 0 when the character does not occur
lastIndexOf(s, c) ==
  IF \E i \in 1..Len(s) : s[i] = c
  THEN CHOOSE i \in 1..Len(s) : s[i] = c /\ \A j \in (i + 1)..Len(s) : s[j] # c
  ELSE 0

\* filePath.split("/").pop()
baseName(filePath) == SubSeq(filePath, lastIndexOf(filePath, "/") + 1, Len(filePath))

\* the path without its trailing "/"
RECURSIVE stripSlashes(_)
stripSlashes(filePath) ==
  IF filePath # <<>> /\ filePath[Len(filePath)] = "/"
  THEN stripSlashes(SubSeq(filePath, 1, Len(filePath) - 1))
  ELSE filePath

\* path.extname: trailing "/" are ignored; from the last "." of the last
\* segment, "" when there is none or when it is the first character of the
\* segment
extname(filePath) ==
  LET base == baseName(stripSlashes(filePath))
      dot  == lastIndexOf(base, ".")
  IN  IF dot <= 1 \/ base = <<".", ".">> THEN <<>> ELSE SubSeq(base, dot, Len(base))

startsWith(s, prefix) ==
  Len(s) >= Len(prefix) /\ SubSeq(s, 1, Len(prefix)) = prefix

\* the parsers array: each parser with its declared extensions
parsers ==
  << [name |-> "ini",  extensions |-> {<<".", "e", "n", "v">>}],
     [name |-> "json", extensions |-> {<<".", "j", "s", "o", "n">>}],
     [name |-> "yaml", extensions |-> {<<".", "y", "a", "m", "l">>, <<".", "y", "m", "l">>}],
     [name |-> "toml", extensions |-> {<<".", "t", "o", "m", "l">>}] >>

\* a dispatch by extension only
getParserByExtensionOnly(filePath) ==
  LET ext == toLowerCase(extname(filePath))
  IN  IF \E i \in 1..Len(parsers) : ext \in parsers[i].extensions
      THEN parsers[CHOOSE i \in 1..Len(parsers) : ext \in parsers[i].extensions].name
      ELSE "null"

\* the name of the parser for a path, "null" when there is none
getParser(filePath) ==
  LET ext == toLowerCase(extname(filePath))
  IN  IF startsWith(baseName(filePath), <<".", "e", "n", "v">>) THEN "ini"
      ELSE IF \E i \in 1..Len(parsers) : ext \in parsers[i].extensions
           THEN parsers[CHOOSE i \in 1..Len(parsers) :
                          /\ ext \in parsers[i].extensions
                          /\ \A j \in 1..(i - 1) : ext \notin parsers[j].extensions].name
      ELSE "null"

\* parser.extract / parser.merge of the parser getParser returned
parserExtract(parser, content, patterns) ==
  CASE parser = "ini"  -> iniExtract(content, patterns)
    [] parser = "json" -> jsonExtract(content, patterns)
    [] parser = "yaml" -> yamlExtract(content, patterns)
    [] parser = "toml" -> tomlExtract(content, patterns)

parserMerge(parser, existingContent, keys) ==
  CASE parser = "ini"  -> iniMerge(existingContent, keys)
    [] parser = "json" -> jsonMerge(existingContent, keys)
    [] parser = "yaml" -> yamlMerge(existingContent, keys)
    [] parser = "toml" -> tomlMerge(existingContent, keys)

\* ------------------------------------------------------------------------
\* core/config.ts: the .bwrss / home.yaml document
\* ------------------------------------------------------------------------

\* A document as YAML.parse returns it:
\*   [isObject, version, filesIsArray, files], each file entry
\*   [isObject, path (optional string), keysKind ("undefined", "array" or
\*   "other"), keys, machine].
\* validateConfig returns [error, files]; a ConfigError is error = TRUE.  The
\* returned file entries carry path and keys only: no other field of the
\* document's entries is copied, so machine is undefined (falsy) on every one.
validatedFile(f) ==
  [path    |-> The(f.path),
   keys    |-> IF f.keysKind = "array" THEN Some(f.keys) ELSE Undefined,
   machine |-> FALSE]

\* a validation that accepts every version
validateConfigAnyVersion(obj) ==
  IF ~obj.isObject THEN [error |-> TRUE, files |-> <<>>]
  ELSE IF ~obj.filesIsArray THEN [error |-> TRUE, files |-> <<>>]
  ELSE IF \E i \in 1..Len(obj.files) :
            \/ ~obj.files[i].isObject
            \/ ~IsDefined(obj.files[i].path)
            \/ obj.files[i].keysKind = "other"
       THEN [error |-> TRUE, files |-> <<>>]
  ELSE [error |-> FALSE,
        files |-> [i \in 1..Len(obj.files) |-> validatedFile(obj.files[i])]]

validateConfig(obj) ==
  IF ~obj.isObject THEN [error |-> TRUE, files |-> <<>>]
  ELSE IF obj.version # 1 THEN [error |-> TRUE, files |-> <<>>]
  ELSE IF ~obj.filesIsArray THEN [error |-> TRUE, files |-> <<>>]
  ELSE IF \E i \in 1..Len(obj.files) :
            \/ ~obj.files[i].isObject
            \/ ~IsDefined(obj.files[i].path)
            \/ obj.files[i].keysKind = "other"
       THEN [error |-> TRUE, files |-> <<>>]
  ELSE [error |-> FALSE,
        files |-> [i \in 1..Len(obj.files) |-> validatedFile(obj.files[i])]]

\* ------------------------------------------------------------------------
\* core/sync.ts: shared and machine-specific payloads
\* ------------------------------------------------------------------------

\* A FilePayload is [path, content, keys, mode, encoding], the last four optional.

splitByMachine(config, payloads) ==
  LET machineFiles == {config.files[i].path :
                         i \in {j \in 1..Len(config.files) : config.files[j].machine}}
  IN  [shared  |-> SelectSeq(payloads, LAMBDA p : p.path \notin machineFiles),
       machine |-> SelectSeq(payloads, LAMBDA p : p.path \in machineFiles)]

\* new Map(machine.map((p) => [p.path, p]))
RECURSIVE payloadMap(_, _)
payloadMap(machine, map) ==
  IF machine = <<>> THEN map
  ELSE payloadMap(Tail(machine), SetKey(map, machine[1].path, machine[1]))

RECURSIVE mergeLoop(_, _, _)
mergeLoop(shared, machineByPath, merged) ==
  IF shared = <<>>
  THEN merged \o [i \in 1..Len(machineByPath) |-> machineByPath[i].v]
  ELSE IF HasKey(machineByPath, shared[1].path)
       THEN mergeLoop(Tail(shared), DeleteKey(machineByPath, shared[1].path),
                      Append(merged, Lookup(machineByPath, shared[1].path)))
  ELSE mergeLoop(Tail(shared), machineByPath, Append(merged, shared[1]))

\* a merge in which the shared payload of a path wins
mergePayloadsSharedFirst(shared, machine) ==
  shared \o SelectSeq(machine,
                      LAMBDA p : \A i \in 1..Len(shared) : shared[i].path # p.path)

\* a merge that forgets the machine payloads
mergePayloadsSharedOnly(shared, machine) == shared

mergePayloads(shared, machine) == mergeLoop(shared, payloadMap(machine, <<>>), <<>>)

\* ------------------------------------------------------------------------
\* core/storage.ts and the encodings of file content
\* ------------------------------------------------------------------------

\* isBinary probes the first 8192 bytes
BinaryProbeLen == 8192

isBinary(buf) ==
  \E i \in 1..(IF Len(buf) < BinaryProbeLen THEN Len(buf) ELSE BinaryProbeLen) :
     buf[i] = "NUL"

\* buf.toString("base64"): a text different from the bytes it encodes
toBase64(buf) == <<"base64(">> \o buf \o <<")">>

\* Buffer.from(text, "base64"): only the texts toBase64 produces are used
fromBase64(text) == SubSeq(text, 2, Len(text) - 1)

\* the bytes restore writes for a whole-file payload
decodeContent(payload) ==
  IF payload.encoding = Some("base64")
  THEN fromBase64(The(payload.content))
  ELSE The(payload.content)

\* buildMetadata: the notes of an item (the timestamp is left out)
buildMetadata(name, files) ==
  [version |-> 1, name |-> name, files |-> [i \in 1..Len(files) |-> files[i].path]]

\* buildPayload: the JSON document stored as the attachment
buildPayload(name, files) == [version |-> 1, name |-> name, files |-> files]

\* ------------------------------------------------------------------------
\* commands/save.ts, commands/home.ts: building the payloads of one target
\* ------------------------------------------------------------------------

fullFilePayload(managedFile, file) ==
  LET binary == isBinary(file.content)
  IN  [path     |-> managedFile.path,
       content  |-> Some(IF binary THEN toBase64(file.content) ELSE file.content),
       keys     |-> Undefined,
       mode     |-> Some(file.mode),
       encoding |-> IF binary THEN Some("base64") ELSE Undefined]

\* a payload that carries the whole file next to the extracted keys
repoFilePayloadWithBoth(managedFile, file) ==
  IF IsDefined(managedFile.keys) /\ Len(The(managedFile.keys)) > 0
  THEN [fullFilePayload(managedFile, file) EXCEPT
          !.keys = Some(parserExtract("ini", file.content, The(managedFile.keys)))]
  ELSE fullFilePayload(managedFile, file)

\* a save that extracts keys whether or not a parser matches the path
repoFilePayloadNoFallback(managedFile, file) ==
  IF IsDefined(managedFile.keys) /\ Len(The(managedFile.keys)) > 0
  THEN [path     |-> managedFile.path,
        content  |-> Undefined,
        keys     |-> Some(<<>>),
        mode     |-> Some(file.mode),
        encoding |-> Undefined]
  ELSE fullFilePayload(managedFile, file)

\* the payload saveCommand pushes for a managed file that exists
repoFilePayload(managedFile, file) ==
  IF IsDefined(managedFile.keys) /\ Len(The(managedFile.keys)) > 0
  THEN LET parser == getParser(managedFile.path)
       IN  IF parser = "null"
           THEN fullFilePayload(managedFile, file)
           ELSE [path     |-> managedFile.path,
                 content  |-> Undefined,
                 keys     |-> Some(parserExtract(parser, file.content, The(managedFile.keys))),
                 mode     |-> Some(file.mode),
                 encoding |-> Undefined]
  ELSE fullFilePayload(managedFile, file)

\* the payload homeSaveCommand pushes: always the whole file
homeFilePayload(managedFile, file) == fullFilePayload(managedFile, file)

\* the loop over config.files; dir maps each path to its optional file
RECURSIVE buildFilePayloads(_, _, _)
buildFilePayloads(files, dir, isHome) ==
  IF files = <<>> THEN <<>>
  ELSE IF ~IsDefined(dir[files[1].path])
       THEN buildFilePayloads(Tail(files), dir, isHome)
  ELSE << IF isHome THEN homeFilePayload(files[1], The(dir[files[1].path]))
          ELSE repoFilePayload(files[1], The(dir[files[1].path])) >>
       \o buildFilePayloads(Tail(files), dir, isHome)

\* a save that uploads also on --dry-run
saveDecisionIgnoresDryRun(filePayloads, options) ==
  IF Len(filePayloads) = 0 THEN "empty" ELSE "upload"

\* what a save does with the payloads of a target: nothing when there are
\* none, a printed summary on --dry-run, the upload otherwise
saveDecision(filePayloads, options) ==
  IF Len(filePayloads) = 0 THEN "empty"
  ELSE IF options.dryRun THEN "dry-run"
  ELSE "upload"

\* ------------------------------------------------------------------------
\* commands/restore.ts, commands/home.ts: restoring one payload
\* ------------------------------------------------------------------------

\* a restore that overwrites an existing file without --force
restoreActionOverwrites(fileExists, payload, declared, options, isHome) ==
  IF ~declared THEN "skip"
  ELSE IF IsDefined(payload.content)
       THEN IF options.dryRun THEN "skip" ELSE "write"
  ELSE IF isHome \/ ~IsDefined(payload.keys) \/ getParser(payload.path) = "null"
          \/ options.dryRun
       THEN "skip"
  ELSE "merge"

\* a restore that writes also on --dry-run
restoreActionIgnoresDryRun(fileExists, payload, declared, options, isHome) ==
  IF ~declared THEN "skip"
  ELSE IF IsDefined(payload.content)
       THEN IF fileExists /\ ~options.force THEN "skip" ELSE "write"
  ELSE IF isHome \/ ~IsDefined(payload.keys) \/ getParser(payload.path) = "null"
       THEN "skip"
  ELSE "merge"

\* a restore that does not look at the local config
restoreActionOfAnyPath(fileExists, payload, declared, options, isHome) ==
  IF IsDefined(payload.content)
  THEN IF fileExists /\ ~options.force THEN "skip"
       ELSE IF options.dryRun THEN "skip"
       ELSE "write"
  ELSE IF isHome THEN "skip"
  ELSE IF IsDefined(payload.keys)
       THEN IF getParser(payload.path) = "null" THEN "skip"
            ELSE IF options.dryRun THEN "skip"
            ELSE "merge"
  ELSE "skip"

\* What the loop body does with one payload: "skip" (a continue, or neither
\* branch taken), "write" (the whole file is written) or "merge" (the keys
\* are merged into the file).  declared: the path is listed in the local
\* config; fileExists: a file is now at the path.  homeRestoreCommand skips
\* every payload without content.
restoreAction(fileExists, payload, declared, options, isHome) ==
  IF ~declared THEN "skip"
  ELSE IF IsDefined(payload.content)
       THEN IF fileExists /\ ~options.force THEN "skip"
            ELSE IF options.dryRun THEN "skip"
            ELSE "write"
  ELSE IF isHome THEN "skip"
  ELSE IF IsDefined(payload.keys)
       THEN IF getParser(payload.path) = "null" THEN "skip"
            ELSE IF options.dryRun THEN "skip"
            ELSE "merge"
  ELSE "skip"

\* The optional file at the payload's path after the loop body.  writeFile
\* creates a file with mode 0644 and keeps the mode of an existing one;
\* setFileMode follows when the payload carries a mode.
restoreFileResult(file, payload, action) ==
  LET fileExists == IsDefined(file)
      newMode    == IF IsDefined(payload.mode) THEN The(payload.mode)
                    ELSE IF fileExists THEN The(file).mode ELSE 420
  IN  IF action = "write"
      THEN Some([content |-> decodeContent(payload), mode |-> newMode])
      ELSE IF action = "merge"
      THEN Some([content |-> parserMerge(getParser(payload.path),
                                IF fileExists THEN The(file).content ELSE <<>>,
                                The(payload.keys)),
                 mode    |-> newMode])
      ELSE file

\* ------------------------------------------------------------------------
\* core/bitwarden.ts: the vault, a sequence of items; an item's id is its
\* index.  An item is [name, notes, attachments]; every attachment is named
\* bwrss-data.json and holds a payload document.
\* ------------------------------------------------------------------------

\* `bwrss:${canonicalName}`
noteName(name) == <<"bwrss:">> \o name

\* `bwrss:${canonicalName}@${machineName}`
machineNoteName(name, machine) == <<"bwrss:">> \o name \o <<"@">> \o machine

\* text.includes(part)
Contains(text, part) ==
  \E i \in 0..(Len(text) - Len(part)) : SubSeq(text, i + 1, i + Len(part)) = part

\* bw list items --search <name>: the ids of the items whose name contains it
searchItems(items, name) ==
  SelectSeq([i \in 1..Len(items) |-> i], LAMBDA i : Contains(items[i].name, name))

\* the first item the search returns, whatever its name
findByNameFirstHit(items, searchName) ==
  LET hits == searchItems(items, searchName)
  IN  IF hits = <<>> THEN 0 ELSE hits[1]

\* items.find((i) => i.name === searchName) ?? null; 0 is null
findByName(items, searchName) ==
  LET found == SelectSeq(searchItems(items, searchName),
                         LAMBDA i : items[i].name = searchName)
  IN  IF found = <<>> THEN 0 ELSE found[1]

findBwrssItem(items, canonicalName) == findByName(items, noteName(canonicalName))

findBwrssItemForMachine(items, canonicalName, machine) ==
  findByName(items, machineNoteName(canonicalName, machine))

createSecureNote(items, name, notes) ==
  Append(items, [name |-> name, notes |-> notes, attachments |-> <<>>])

updateItemNotes(items, id, notes) == [items EXCEPT ![id].notes = notes]

\* a delete that removes nothing
deleteAttachmentKeepsIt(items, id) == items

\* bw delete attachment <existing.id>: the first attachment with the file name
deleteAttachment(items, id) ==
  [items EXCEPT ![id].attachments = Tail(@)]

\* bw create attachment --file <tmp> --itemid <id>
createAttachment(items, id, content) ==
  [items EXCEPT ![id].attachments = Append(@, content)]

\* ------------------------------------------------------------------------
\* core/machine.ts: the machine name
\* ------------------------------------------------------------------------

MachineNames == {<<"m", "1">>, <<"m", "2">>}

\* The outcomes of getMachineName for the machine config now on disk (an
\* optional name): the configured name; else chooseMachineName, which throws
\* when discoverMachines fails or the answer is empty, and otherwise writes
\* the chosen name to config.yaml and returns it.
getMachineName(configured) ==
  IF IsDefined(configured)
  THEN {[threw |-> FALSE, name |-> configured, wrote |-> FALSE]}
  ELSE {[threw |-> TRUE, name |-> Undefined, wrote |-> FALSE]}
       \cup {[threw |-> FALSE, name |-> Some(m), wrote |-> TRUE] : m \in MachineNames}

\* no machine-specific file: getMachineName is not called
noMachineName == [threw |-> FALSE, name |-> Undefined, wrote |-> FALSE]

\* ------------------------------------------------------------------------
\* The environment of a run: config documents, local files, vault contents
\* ------------------------------------------------------------------------

PEnv == <<".", "e", "n", "v">>

PPem == <<"k", ".", "p", "e", "m">>

Paths == {PEnv, PPem}

PatA == <<"A", "*">>

Entry(path, keysKind, keys, machine) ==
  [isObject |-> TRUE, path |-> Some(path), keysKind |-> keysKind, keys |-> keys,
   machine |-> machine]

Doc(files) == [isObject |-> TRUE, version |-> 1, filesIsArray |-> TRUE, files |-> files]

\* keys with a parser and a machine file; a whole file and keys without a
\* parser; an empty keys list
ValidDocs ==
  { Doc(<<Entry(PEnv, "array", <<PatA>>, FALSE), Entry(PPem, "undefined", <<>>, TRUE)>>),
    Doc(<<Entry(PEnv, "undefined", <<>>, FALSE), Entry(PPem, "array", <<PatA>>, FALSE)>>),
    Doc(<<Entry(PEnv, "array", <<>>, TRUE)>>) }

\* not a mapping; version 2; files not a list; an entry without path; keys
\* not a list
InvalidDocs ==
  { [Doc(<<>>) EXCEPT !.isObject = FALSE],
    [Doc(<<>>) EXCEPT !.version = 2],
    [Doc(<<>>) EXCEPT !.filesIsArray = FALSE],
    Doc(<<[Entry(PEnv, "undefined", <<>>, FALSE) EXCEPT !.path = Undefined]>>),
    Doc(<<Entry(PEnv, "other", <<>>, FALSE)>>) }

\* the config file of a target: absent, or one of the documents
ConfigFiles == {Undefined} \cup {Some(d) : d \in ValidDocs \cup InvalidDocs}

File(content, mode) == Some([content |-> content, mode |-> mode])

\* the managed files of one target's directory
LocalStates ==
  { [p \in Paths |-> IF p = PEnv
                     THEN File(<<"A", "=", "1", "\n", "B", "=", "2">>, 384)
                     ELSE File(<<"NUL", "x">>, 256)],
    [p \in Paths |-> IF p = PEnv THEN File(<<"Z", "=", "3">>, 420) ELSE Undefined],
    [p \in Paths |-> Undefined] }

Payload(path, content, keys, mode, encoding) ==
  [path |-> path, content |-> content, keys |-> keys, mode |-> mode, encoding |-> encoding]

KV(key, value) == [k |-> key, v |-> value]

\* payload lists found in the vault: what another machine saved
RemoteFilesA ==
  << Payload(PEnv, Undefined, Some(<<KV(<<"A">>, <<"9">>), KV(<<"Z">>, <<"7">>)>>),
             Some(384), Undefined),
     Payload(PPem, Some(toBase64(<<"NUL", "y">>)), Undefined, Some(256), Some("base64")) >>

RemoteFilesB ==
  << Payload(PEnv, Some(<<"Q", "=", "5">>), Undefined, Some(420), Undefined),
     Payload(PPem, Undefined, Some(<<KV(<<"A">>, <<"1">>)>>), Undefined, Undefined) >>

RemoteFilesM ==
  << Payload(PPem, Some(<<"m", "1">>), Undefined, Some(256), Undefined) >>

\* the canonical name of a target: "home" for target 0, "r", "rr", ... for
\* the repositories (each a prefix of the next)
canonicalName(t) == IF t = 0 THEN <<"h", "o", "m", "e">> ELSE [j \in 1..t |-> "r"]

Item(name, canonical, files) ==
  [name        |-> name,
   notes       |-> buildMetadata(canonical, files),
   attachments |-> <<buildPayload(canonical, files)>>]

\* the vault before the run: empty; a shared item per target; a shared and
\* a machine item per target
VaultImages ==
  { <<>>,
    [i \in 1..(NumRepos + 1) |->
       Item(noteName(canonicalName(i - 1)), canonicalName(i - 1), RemoteFilesA)],
    [i \in 1..(2 * (NumRepos + 1)) |->
       LET name == canonicalName((i - 1) \div 2)
       IN  IF i % 2 = 1
           THEN Item(noteName(name), name, RemoteFilesB)
           ELSE Item(machineNoteName(name, <<"m", "1">>), name, RemoteFilesM)] }

Commands == {"save", "restore", "homeSave", "homeRestore"}

IsSave(c) == c \in {"save", "homeSave"}

IsHome(c) == c \in {"homeSave", "homeRestore"}

\* the targets of a command: the repositories found, or the home directory (0)
Targets(c) == IF IsHome(c) THEN <<0>> ELSE [i \in 1..NumRepos |-> i]

AllTargets == 0..NumRepos

\* ~/.config/bwrss/config.yaml, as an entry of the set of written files
MachineConfigFile == <<-1, <<"c", "o", "n", "f", "i", "g", ".", "y", "a", "m", "l">>>>

\* ------------------------------------------------------------------------
\* State
\* ------------------------------------------------------------------------

VARIABLES
  cmd,           \* the command that runs
  options,       \* its flags [dryRun, force, bwSession]
  env,           \* the optional value of process.env.BW_SESSION
  exitCode,      \* the optional exit code of the process
  fs,            \* fs[t][path]: the optional managed file of target t
  machineCfg,    \* the optional machine name in ~/.config/bwrss/config.yaml
  vault,         \* the items of the Bitwarden vault
  pc,            \* "start" (the preAction hook is next), "exited" (process.exit),
                 \* "loop", "bw" (a bw command is next), "files" (restoring
                 \* payloads), "done", or "crashed" (an exception left the command)
  idx,           \* the index of the current target in Targets(cmd)
  doc,           \* the optional config document read for the current target
  config,        \* validateConfig's result for the current target
  machineName,   \* the optional machine name of the current target
  filePayloads,  \* the payloads a save built for the current target
  op,            \* the next bw command
  stage,         \* "shared" or "machine": the item the bw commands are about
  item,          \* the id of the item found, created or updated; 0 is null
  fetched,       \* [shared, machine]: the optional payload lists fetched
  queue,         \* the payloads still to restore
  outcome,       \* outcome[t]: how the loop body of target t ended
  log,           \* the bw commands run for the current target: [t, stage, op, ok]
  written,       \* the local files written: <<t, path>>
  input,         \* the arguments of a function applied on its own
  output         \* and its results

vars == <<cmd, options, env, exitCode, fs, machineCfg, vault, pc, idx, doc, config, machineName,
          filePayloads, op, stage, item, fetched, queue, outcome, log, written,
          input, output>>

\* The exit code once the command function has returned or thrown: 0 when
\* it returns; an exception that leaves it rejects the promise of the async
\* action, which program.parse() does not handle, and the runtime ends the
\* process with code 1.
exitCodeAt(at) ==
  IF at = "done" THEN Some(0)
  ELSE IF at = "crashed" THEN Some(1)
  ELSE Undefined

\* the state a handler reads and changes, as one record
State ==
  [fs |-> fs, machineCfg |-> machineCfg, vault |-> vault, pc |-> pc, idx |-> idx,
   doc |-> doc, config |-> config, machineName |-> machineName,
   filePayloads |-> filePayloads, op |-> op, stage |-> stage, item |-> item,
   fetched |-> fetched, queue |-> queue, outcome |-> outcome, log |-> log,
   written |-> written]

Becomes(n) ==
  /\ fs' = n.fs
  /\ machineCfg' = n.machineCfg
  /\ vault' = n.vault
  /\ pc' = n.pc
  /\ idx' = n.idx
  /\ doc' = n.doc
  /\ config' = n.config
  /\ machineName' = n.machineName
  /\ filePayloads' = n.filePayloads
  /\ op' = n.op
  /\ stage' = n.stage
  /\ item' = n.item
  /\ fetched' = n.fetched
  /\ queue' = n.queue
  /\ outcome' = n.outcome
  /\ log' = n.log
  /\ written' = n.written
  /\ exitCode' = exitCodeAt(n.pc)
  /\ UNCHANGED <<cmd, options, env, input, output>>

NoConfig == [error |-> FALSE, files |-> <<>>]

NothingFetched == [shared |-> Undefined, machine |-> Undefined]

\* ------------------------------------------------------------------------
\* The loop over the targets
\* ------------------------------------------------------------------------

\* the loop body of target t ends (continue, or the end of the body; return
\* in a home command): the loop goes on with the next target
continue(s, c, result) ==
  [s EXCEPT !.outcome[Targets(c)[s.idx]] = result,
            !.idx = s.idx + 1,
            !.pc = IF s.idx + 1 > Len(Targets(c)) THEN "done" ELSE "loop"]

\* an exception leaves the loop body outside its try block: the command ends
throw(s, c) ==
  [s EXCEPT !.outcome[Targets(c)[s.idx]] = "threw", !.pc = "crashed"]

\* a loop body without catch block: the exception leaves the command
catchMissing(s, c) == throw(s, c)

\* the exception is caught by the catch block of the loop body
catch(s, c) == continue(s, c, "failed")

\* The loop body up to the first bw command: configExists, readConfig,
\* getMachineName and, in a save, the payloads.  cfgFile is the optional
\* config document on disk, mn the outcome of getMachineName when called.
beginTarget(s, c, opts, cfgFile, mn) ==
  LET t  == Targets(c)[s.idx]
      s1 == [s EXCEPT !.doc = cfgFile, !.config = NoConfig, !.machineName = Undefined,
                      !.filePayloads = <<>>, !.op = "none", !.stage = "shared",
                      !.item = 0, !.fetched = NothingFetched, !.queue = <<>>,
                      !.log = <<>>]
  IN  IF ~IsDefined(cfgFile) THEN continue(s1, c, "skipped")
      ELSE
      LET v == validateConfig(The(cfgFile))
      IN  IF v.error THEN throw(s1, c)
          ELSE
          LET hasMachineFiles == \E i \in 1..Len(v.files) : v.files[i].machine
              called == hasMachineFiles /\ (~IsSave(c) \/ ~opts.dryRun)
              r  == IF called THEN mn ELSE noMachineName
              s2 == [s1 EXCEPT !.config = v,
                               !.machineName = r.name,
                               !.machineCfg = IF r.wrote THEN r.name ELSE @,
                               !.written = IF r.wrote THEN @ \cup {MachineConfigFile} ELSE @]
          IN  IF r.threw THEN throw(s2, c)
              ELSE IF IsSave(c)
              THEN LET built == buildFilePayloads(v.files, s.fs[t], IsHome(c))
                       s3    == [s2 EXCEPT !.filePayloads = built]
                       what  == saveDecision(built, opts)
                   IN  IF what = "empty" THEN continue(s3, c, "empty")
                       ELSE IF what = "dry-run" THEN continue(s3, c, "previewed")
                       ELSE [s3 EXCEPT !.pc = "bw", !.op = "status"]
              ELSE [s2 EXCEPT !.pc = "bw", !.op = "status"]

\* ------------------------------------------------------------------------
\* The bw commands of one target, all inside the try block of the loop body
\* ------------------------------------------------------------------------

logged(s, c, ok) ==
  [s EXCEPT !.log = Append(@, [t |-> Targets(c)[s.idx], stage |-> s.stage,
                               op |-> s.op, ok |-> ok])]

\* the name of the item the current stage is about
stageItemName(s, c) ==
  IF s.stage = "shared"
  THEN noteName(canonicalName(Targets(c)[s.idx]))
  ELSE machineNoteName(canonicalName(Targets(c)[s.idx]), The(s.machineName))

\* the payloads the current stage uploads
stagePayloads(s) ==
  IF s.stage = "shared"
  THEN splitByMachine(s.config, s.filePayloads).shared
  ELSE splitByMachine(s.config, s.filePayloads).machine

\* saveCommand after uploadPayload: uploadMachinePayload, or the end of the body
afterSharedUpload(s, c) ==
  IF Len(splitByMachine(s.config, s.filePayloads).machine) > 0 /\ IsDefined(s.machineName)
  THEN [s EXCEPT !.stage = "machine", !.op = "list", !.item = 0]
  ELSE continue(s, c, "saved")

\* restoreCommand once both fetches are over
afterFetch(s, c) ==
  IF ~IsDefined(s.fetched.shared) /\ ~IsDefined(s.fetched.machine)
  THEN continue(s, c, "no-data")
  ELSE LET allPayloads ==
             mergePayloads(IF IsDefined(s.fetched.shared) THEN The(s.fetched.shared) ELSE <<>>,
                           IF IsDefined(s.fetched.machine) THEN The(s.fetched.machine) ELSE <<>>)
       IN  IF allPayloads = <<>> THEN continue(s, c, "restored")
           ELSE [s EXCEPT !.queue = allPayloads, !.pc = "files", !.op = "none"]

\* restoreCommand after fetchPayload: fetchMachinePayload, or the merge
afterStageFetch(s, c) ==
  IF s.stage = "shared" /\ IsDefined(s.machineName)
  THEN [s EXCEPT !.stage = "machine", !.op = "list", !.item = 0]
  ELSE afterFetch(s, c)

\* a bw command succeeds: ensureUnlocked, sync, then uploadPayload /
\* uploadMachinePayload (list, edit or create, then setAttachment: get,
\* delete, attach) in a save, fetchPayload / fetchMachinePayload (list,
\* download) in a restore
bwSucceeds(s0, c) ==
  LET s    == logged(s0, c, TRUE)
      t    == Targets(c)[s.idx]
      name == stageItemName(s, c)
      id   == findByName(s.vault, name)
  IN  CASE s.op = "status" -> [s EXCEPT !.op = "sync"]
        [] s.op = "sync" ->
             IF ~IsSave(c) THEN [s EXCEPT !.stage = "shared", !.op = "list"]
             ELSE IF Len(stagePayloads(s)) > 0 THEN [s EXCEPT !.op = "list"]
             ELSE afterSharedUpload(s, c)
        [] s.op = "list" /\ IsSave(c) ->
             [s EXCEPT !.item = id, !.op = IF id # 0 THEN "edit" ELSE "create"]
        [] s.op = "edit" ->
             [s EXCEPT !.vault = updateItemNotes(@, s.item,
                                   buildMetadata(canonicalName(t), stagePayloads(s))),
                       !.op = "get"]
        [] s.op = "create" ->
             [s EXCEPT !.vault = createSecureNote(@, name,
                                   buildMetadata(canonicalName(t), stagePayloads(s))),
                       !.item = Len(s.vault) + 1,
                       !.op = "get"]
        [] s.op = "get" ->
             [s EXCEPT !.op = IF s.vault[s.item].attachments # <<>> THEN "delete" ELSE "attach"]
        [] s.op = "delete" ->
             [s EXCEPT !.vault = deleteAttachment(@, s.item), !.op = "attach"]
        [] s.op = "attach" ->
             LET s1 == [s EXCEPT !.vault = createAttachment(@, s.item,
                                     buildPayload(canonicalName(t), stagePayloads(s)))]
             IN  IF s.stage = "shared" THEN afterSharedUpload(s1, c)
                 ELSE continue(s1, c, "saved")
        [] s.op = "list" /\ ~IsSave(c) ->
             IF id # 0 /\ s.vault[id].attachments # <<>>
             THEN [s EXCEPT !.item = id, !.op = "download"]
             ELSE afterStageFetch([s EXCEPT !.item = id], c)
        [] s.op = "download" ->
             afterStageFetch(
               [s EXCEPT !.fetched[s.stage] = Some(s.vault[s.item].attachments[1].files)], c)

\* a bw command fails (or the vault is locked): the BitwardenError is caught
\* by the catch block of the loop body
bwFails(s, c) == catch(logged(s, c, FALSE), c)

\* the loop body of restoreCommand / homeRestoreCommand for the next payload
restoreFile(s, c, opts) ==
  LET t        == Targets(c)[s.idx]
      payload  == Head(s.queue)
      declared == \E i \in 1..Len(s.config.files) : s.config.files[i].path = payload.path
      file     == IF declared THEN s.fs[t][payload.path] ELSE Undefined
      action   == restoreAction(IsDefined(file), payload, declared, opts, IsHome(c))
      s1       == [s EXCEPT !.queue = Tail(@),
                            !.fs = IF action = "skip" THEN @
                                   ELSE [@ EXCEPT ![t][payload.path] =
                                           restoreFileResult(file, payload, action)],
                            !.written = IF action = "skip" THEN @
                                        ELSE @ \cup {<<t, payload.path>>}]
  IN  IF Tail(s.queue) = <<>> THEN continue(s1, c, "restored") ELSE s1

\* ------------------------------------------------------------------------
\* The run of one command
\* ------------------------------------------------------------------------

Idle ==
  /\ pc = "start"
  /\ idx = 1
  /\ doc = Undefined
  /\ config = NoConfig
  /\ machineName = Undefined
  /\ filePayloads = <<>>
  /\ op = "none"
  /\ stage = "shared"
  /\ item = 0
  /\ fetched = NothingFetched
  /\ queue = <<>>
  /\ outcome = [t \in AllTargets |-> "pending"]
  /\ log = <<>>
  /\ written = {}

Init ==
  /\ cmd \in Commands
  /\ options \in [dryRun : BOOLEAN, force : BOOLEAN,
                  bwSession : {Undefined, Some(<<"s">>)}]
  /\ env \in {Undefined, Some(<<>>), Some(<<"e">>)}
  /\ exitCode = Undefined
  /\ IsSave(cmd) => ~options.force
  /\ fs \in [AllTargets -> LocalStates]
  /\ \A t \in AllTargets \ Range(Targets(cmd)) : \A p \in Paths : fs[t][p] = Undefined
  /\ machineCfg \in {Undefined, Some(<<"m", "1">>)}
  /\ vault \in VaultImages
  /\ Idle
  /\ input = <<>>
  /\ output = <<>>

\* a string is truthy unless it is empty; undefined is falsy
Truthy(o) == IsDefined(o) /\ The(o) # <<>>

\* ensureSession: the value of BW_SESSION afterwards, and whether it threw
ensureSession(session, envSession) ==
  LET e == IF Truthy(session) THEN session ELSE envSession
  IN  [env |-> e, threw |-> ~Truthy(e)]

\* the preAction hook of save, restore, home save and home restore
RequireSession ==
  /\ pc = "start"
  /\ LET r == ensureSession(options.bwSession, env)
     IN  /\ env' = r.env
         /\ pc' = IF r.threw THEN "exited" ELSE "loop"
         /\ exitCode' = IF r.threw THEN Some(1) ELSE Undefined
  /\ UNCHANGED <<cmd, options, fs, machineCfg, vault, idx, doc, config, machineName,
                 filePayloads, op, stage, item, fetched, queue, outcome, log, written,
                 input, output>>

BeginTarget ==
  /\ pc = "loop"
  /\ \E cfgFile \in ConfigFiles, mn \in getMachineName(machineCfg) :
       Becomes(beginTarget(State, cmd, options, cfgFile, mn))

BwOk ==
  /\ pc = "bw"
  /\ Becomes(bwSucceeds(State, cmd))

BwFail ==
  /\ pc = "bw"
  /\ Becomes(bwFails(State, cmd))

RestoreFile ==
  /\ pc = "files"
  /\ Becomes(restoreFile(State, cmd, options))

Next == RequireSession \/ BeginTarget \/ BwOk \/ BwFail \/ RestoreFile

Spec == Init /\ [][Next]_vars

\* ------------------------------------------------------------------------
\* Properties of save
\* ------------------------------------------------------------------------

\* the target whose loop body ran last, once it has ended
LastTarget == Targets(cmd)[idx - 1]

BodyEnded == pc \in {"loop", "done"} /\ idx > 1

\* the entry of the validated config for a path (the first one)
Declaration(path) ==
  config.files[CHOOSE i \in 1..Len(config.files) : config.files[i].path = path]

IsDeclared(path) == \E i \in 1..Len(config.files) : config.files[i].path = path

MatchesSome(key, patterns) == \E i \in 1..Len(patterns) : matchGlob(key, patterns[i])

\* C2: every FilePayload a save builds (repository or home) has exactly one
\* of content and keys set, never both and never neither.
C2_ExactlyOneOfContentAndKeys ==
  \A i \in 1..Len(filePayloads) :
     IsDefined(filePayloads[i].content) # IsDefined(filePayloads[i].keys)

\* a repository save has built a keys payload and a base64 whole-file payload
C2_Witness ==
  /\ cmd = "save"
  /\ Len(filePayloads) = 2
  /\ IsDefined(filePayloads[1].keys)
  /\ filePayloads[2].encoding = Some("base64")

\* C3 as stated: for every declaration with keys present (an empty list and
\* a path without parser included), the payload of that file has no content
\* and carries only key/value pairs whose key matches a declared pattern.
C3_KeysPresentNeverWholeContent ==
  cmd = "save" =>
    \A i \in 1..Len(filePayloads) :
       LET payload == filePayloads[i]
       IN  IsDefined(Declaration(payload.path).keys) =>
             /\ ~IsDefined(payload.content)
             /\ IsDefined(payload.keys)
             /\ \A j \in 1..Len(The(payload.keys)) :
                  MatchesSome(The(payload.keys)[j].k, The(Declaration(payload.path).keys))

\* C3 amended: for every declaration with a non-empty keys list and a path
\* that has a parser, the payload has no content and carries exactly the
\* parsed key/value pairs whose key matches a declared pattern; with an
\* empty keys list or without a parser the file is saved whole.
C3_NonEmptyKeysWithParser ==
  cmd = "save" =>
    \A i \in 1..Len(filePayloads) :
       LET payload == filePayloads[i]
           decl    == Declaration(payload.path)
           partial == /\ IsDefined(decl.keys)
                      /\ Len(The(decl.keys)) > 0
                      /\ getParser(payload.path) # "null"
       IN  IF partial
           THEN /\ ~IsDefined(payload.content)
                /\ IsDefined(payload.keys)
                /\ \A j \in 1..Len(The(payload.keys)) :
                     MatchesSome(The(payload.keys)[j].k, The(decl.keys))
           ELSE IsDefined(payload.content) /\ ~IsDefined(payload.keys)

\* .env holding A=1 and B=2 was saved with keys ["A*"]: only A is in the payload
C3_Witness ==
  /\ cmd = "save"
  /\ Len(filePayloads) > 0
  /\ filePayloads[1].keys = Some(<<KV(<<"A">>, <<"1">>)>>)

\* C7: a save with --dry-run runs no bw command and leaves the vault as it was.
C7_DryRunSaveWritesNothingRemote ==
  (IsSave(cmd) /\ options.dryRun) =>
    /\ pc # "bw"
    /\ log = <<>>
    /\ vault \in VaultImages

\* a dry-run save has printed the summary of a target with payloads
C7_Witness ==
  /\ IsSave(cmd)
  /\ options.dryRun
  /\ BodyEnded
  /\ outcome[LastTarget] = "previewed"
  /\ Len(filePayloads) > 0

\* the paths of the payloads attached to the item of that name, if any
AttachedPaths(name) ==
  LET id == findByName(vault, name)
  IN  IF id = 0 THEN {}
      ELSE UNION {{a.files[i].path : i \in 1..Len(a.files)} : a \in Range(vault[id].attachments)}

\* C8 as stated: after a repository save of a target, every file declared
\* machine: true in its .bwrss (and present on disk) is in the attachment of
\* bwrss:<name>@<machine> and not in that of bwrss:<name>.
C8_MachineFilesGoToMachineItem ==
  (cmd = "save" /\ BodyEnded /\ outcome[LastTarget] = "saved") =>
    \A i \in 1..Len(The(doc).files) :
       LET f == The(doc).files[i]
       IN  (f.machine /\ IsDefined(fs[LastTarget][The(f.path)])) =>
             /\ The(f.path) \notin AttachedPaths(noteName(canonicalName(LastTarget)))
             /\ \E m \in MachineNames :
                  The(f.path) \in AttachedPaths(machineNoteName(canonicalName(LastTarget), m))

\* C9 as stated: when the command has ended, every target has been
\* processed, also those after a target whose config raised a ConfigError.
C9_ConfigErrorDoesNotStopLaterTargets ==
  pc \in {"done", "crashed"} =>
    \A i \in 1..Len(Targets(cmd)) : outcome[Targets(cmd)[i]] # "pending"

\* ------------------------------------------------------------------------
\* Properties of restore
\* ------------------------------------------------------------------------

\* the target whose loop body runs
CurrentTarget == Targets(cmd)[idx]

\* the key/value pairs the parser of the path reads in an optional file
fileEntries(path, file) ==
  IF IsDefined(file)
  THEN parserExtract(getParser(path), The(file).content, << <<"*", "*">> >>)
  ELSE <<>>

\* the keys whose value (or presence) differs between two lists of pairs
changedKeys(before, after) ==
  {e.k : e \in Range(before) \cup Range(after)} \
  {e.k : e \in Range(before) \cap Range(after)}

\* C4 as stated: restoring a payload for a path the local .bwrss declares
\* with keys changes, in the local file, only values whose key matches one
\* of the locally declared patterns, whatever the remote payload carries.
C4_RestoreWritesOnlyLocallyDeclaredKeys ==
  [][ (pc = "files" /\ cmd = "restore") =>
        LET path == Head(queue).path
        IN  (IsDeclared(path) /\ IsDefined(Declaration(path).keys)
               /\ getParser(path) # "null") =>
              \A key \in changedKeys(fileEntries(path, fs[CurrentTarget][path]),
                                     fileEntries(path, fs'[CurrentTarget][path])) :
                 MatchesSome(key, The(Declaration(path).keys)) ]_vars

\* C5 as stated: restoring a whole-file payload leaves an existing file
\* (content and mode) as it was when force is not set, and otherwise (force,
\* or no file) leaves a file whose content is the payload's content.
C5_WholeFileRestore ==
  [][ (pc = "files" /\ ~IsSave(cmd)) =>
        LET payload == Head(queue)
            file    == fs[CurrentTarget][payload.path]
            after   == fs'[CurrentTarget][payload.path]
        IN  IsDefined(payload.content) =>
              IF IsDefined(file) /\ ~options.force
              THEN after = file
              ELSE IsDefined(after) /\ The(after).content = decodeContent(payload) ]_vars

\* C5 amended: restoring a whole-file payload leaves an existing file
\* (content and mode) as it was when force is not set; with force, or
\* without a file, in a run without --dry-run and for a path the local config
\* lists, it leaves a file whose content is the decoded payload content; in
\* every other case the file is left as it was.
C5_WholeFileRestoreOfListedPath ==
  [][ (pc = "files" /\ ~IsSave(cmd)) =>
        LET payload == Head(queue)
            file    == fs[CurrentTarget][payload.path]
            after   == fs'[CurrentTarget][payload.path]
        IN  IsDefined(payload.content) =>
              IF IsDefined(file) /\ ~options.force
              THEN after = file
              ELSE IF ~options.dryRun /\ IsDeclared(payload.path)
              THEN IsDefined(after) /\ The(after).content = decodeContent(payload)
              ELSE after = file ]_vars

\* a forced restore has overwritten the .env of a target with the payload Q=5
C5_Witness ==
  /\ ~IsSave(cmd)
  /\ options.force
  /\ \E t \in Range(Targets(cmd)) :
       /\ <<t, PEnv>> \in written
       /\ fs[t][PEnv] = File(<<"Q", "=", "5">>, 420)

\* C6: a restore with --dry-run writes no file: no managed file is created or
\* changed, and the machine config file is not written.
C6_DryRunRestoreWritesNoFile ==
  [][ (~IsSave(cmd) /\ options.dryRun) =>
        /\ written' = {}
        /\ fs' = fs
        /\ machineCfg' = machineCfg ]_vars

\* a dry-run restore with --force has gone through the payloads of a target
\* whose files are missing
C6_Witness ==
  /\ ~IsSave(cmd)
  /\ options.dryRun
  /\ options.force
  /\ BodyEnded
  /\ outcome[LastTarget] = "restored"
  /\ IsDeclared(PEnv)
  /\ ~IsDefined(fs[LastTarget][PEnv])

\* ------------------------------------------------------------------------
\* Properties of the loop over the targets
\* ------------------------------------------------------------------------

\* the names of the items of a target
IsItemOf(name, t) ==
  \/ name = noteName(canonicalName(t))
  \/ \E m \in MachineNames : name = machineNoteName(canonicalName(t), m)

\* C10: a failing bw command (vault locked, network error) in the loop body
\* of a target is caught there: the target ends as failed, the command does
\* not crash and goes on with the next target, whose processing the failure
\* does not touch (outcomes, files and items of other targets are left
\* alone); no bw command is run twice for a target (no retry).
C10_RemoteFailureIsCaughtPerTarget ==
  [][ /\ (pc = "bw" /\ Len(log') = Len(log) + 1 /\ ~log'[Len(log')].ok) =>
           /\ outcome' = [outcome EXCEPT ![CurrentTarget] = "failed"]
           /\ idx' = idx + 1
           /\ pc' = IF idx' > Len(Targets(cmd)) THEN "done" ELSE "loop"
           /\ vault' = vault
           /\ fs' = fs
      /\ pc = "bw" =>
           /\ pc' # "crashed"
           /\ \A u \in AllTargets \ {CurrentTarget} :
                outcome'[u] = outcome[u] /\ fs'[u] = fs[u]
           /\ \A i \in 1..Len(vault) :
                ~IsItemOf(vault[i].name, CurrentTarget) => vault'[i] = vault[i]
      /\ \A i, j \in 1..Len(log') :
           (log'[i].stage = log'[j].stage /\ log'[i].op = log'[j].op) => i = j ]_vars

\* a bw command of the first repository failed and the second one was saved
C10_Witness ==
  /\ cmd = "save"
  /\ pc = "done"
  /\ outcome[1] = "failed"
  /\ outcome[2] = "saved"

\* ------------------------------------------------------------------------
\* core/sync.ts on its own: splitByMachine, then mergePayloads
\* ------------------------------------------------------------------------

MaxPayloads == 3

\* the paths f, ff, fff, ...
SyncPath(i) == [j \in 1..i |-> "f"]

\* the lists of payloads with distinct paths
SyncPayloadLists ==
  {payloads \in UNION {[1..n -> 1..MaxPayloads] : n \in 0..MaxPayloads} :
     \A i, j \in 1..Len(payloads) : payloads[i] = payloads[j] => i = j}

\* the configs: every path is left out, listed, or listed with machine: true
SyncConfigs == [1..MaxPayloads -> {"none", "shared", "machine"}]

SyncConfig(kinds) ==
  [error |-> FALSE,
   files |-> [i \in 1..Len(SelectSeq([i \in 1..MaxPayloads |-> i], LAMBDA i : kinds[i] # "none")) |->
                LET n == SelectSeq([j \in 1..MaxPayloads |-> j], LAMBDA j : kinds[j] # "none")[i]
                IN  [path |-> SyncPath(n), keys |-> Undefined,
                     machine |-> kinds[n] = "machine"]]]

SyncPayloads(list) ==
  [i \in 1..Len(list) |->
     Payload(SyncPath(list[i]), Some(<<"x">>), Undefined, Some(420), Undefined)]

InitSync ==
  /\ cmd = "save"
  /\ options = [dryRun |-> FALSE, force |-> FALSE, bwSession |-> Undefined]
  /\ env = Undefined
  /\ exitCode = Undefined
  /\ fs = [t \in AllTargets |-> [p \in Paths |-> Undefined]]
  /\ machineCfg = Undefined
  /\ vault = <<>>
  /\ Idle
  /\ \E kinds \in SyncConfigs, list \in SyncPayloadLists :
       input = [config |-> SyncConfig(kinds), payloads |-> SyncPayloads(list)]
  /\ output = <<>>

Split ==
  /\ Len(output) = 0
  /\ output' = <<splitByMachine(input.config, input.payloads)>>
  /\ UNCHANGED <<cmd, options, env, exitCode, fs, machineCfg, vault, pc, idx, doc, config, machineName,
                 filePayloads, op, stage, item, fetched, queue, outcome, log, written,
                 input>>

Merge ==
  /\ Len(output) = 1
  /\ output' = Append(output, mergePayloads(output[1].shared, output[1].machine))
  /\ UNCHANGED <<cmd, options, env, exitCode, fs, machineCfg, vault, pc, idx, doc, config, machineName,
                 filePayloads, op, stage, item, fetched, queue, outcome, log, written,
                 input>>

NextSync == Split \/ Merge

SpecSync == InitSync /\ [][NextSync]_vars

\* C1: for every config and every list of payloads with distinct paths,
\* mergePayloads applied to the two lists splitByMachine returns holds
\* exactly the input payloads, each once, whichever files are flagged
\* machine-specific.
C1_MergeUndoesSplit ==
  Len(output) = 2 =>
    /\ Len(output[2]) = Len(input.payloads)
    /\ \A i \in 1..Len(input.payloads) :
         Cardinality({j \in 1..Len(output[2]) : output[2][j] = input.payloads[i]}) = 1

\* three payloads were split into a shared and a machine list and merged again
C1_Witness ==
  /\ Len(output) = 2
  /\ Len(input.payloads) = MaxPayloads
  /\ output[1].shared # <<>>
  /\ output[1].machine # <<>>

\* ------------------------------------------------------------------------
\* Properties of the exit code
\* ------------------------------------------------------------------------

\* C11 as stated: without a session from --bw-session or BW_SESSION the
\* process exits with code 1 before any target is processed; once the
\* session check has passed, the exit code is never 1, whatever happens to
\* a target.
C11_ExitCodeOnlyFromSessionCheck ==
  /\ pc = "exited" =>
       /\ ~Truthy(options.bwSession) /\ ~Truthy(env)
       /\ exitCode = Some(1)
       /\ idx = 1 /\ log = <<>> /\ written = {}
       /\ \A t \in AllTargets : outcome[t] = "pending"
  /\ (pc # "start" /\ ~Truthy(options.bwSession) /\ ~Truthy(env)) => pc = "exited"
  /\ pc \notin {"start", "exited"} => exitCode \in {Undefined, Some(0)}

\* ------------------------------------------------------------------------
\* Functions applied on their own: the variables of a command stay put
\* ------------------------------------------------------------------------

Parked ==
  /\ cmd = "save"
  /\ options = [dryRun |-> FALSE, force |-> FALSE, bwSession |-> Undefined]
  /\ env = Undefined
  /\ exitCode = Undefined
  /\ fs = [t \in AllTargets |-> [p \in Paths |-> Undefined]]
  /\ machineCfg = Undefined
  /\ vault = <<>>
  /\ Idle

Apply(result) ==
  /\ output = <<>>
  /\ output' = <<result>>
  /\ UNCHANGED <<cmd, options, env, exitCode, fs, machineCfg, vault, pc, idx, doc,
                 config, machineName, filePayloads, op, stage, item, fetched, queue,
                 outcome, log, written, input>>

\* all sequences over a set of characters up to a length
TextsUpTo(chars, n) == UNION {[1..k -> chars] : k \in 0..n}

\* ------------------------------------------------------------------------
\* util/dotpath.ts on its own: matchGlob
\* ------------------------------------------------------------------------

MaxKeyLen == 3

MaxPatternLen == 4

GlobKeyChars == {"a", "A", ".", "+"}

GlobPatternChars == {"a", ".", "*", "+"}

InitGlob ==
  /\ Parked
  /\ \E key \in TextsUpTo(GlobKeyChars, MaxKeyLen),
        pattern \in TextsUpTo(GlobPatternChars, MaxPatternLen) :
       input = [key |-> key, pattern |-> pattern]
  /\ output = <<>>

\* matchGlob(key, pattern): the SyntaxError thrown, or the value returned
MatchGlob ==
  Apply([threw |-> matchGlobThrows(input.pattern),
         value |-> matchGlob(input.key, input.pattern)])

NextGlob == MatchGlob

SpecGlob == InitGlob /\ [][NextGlob]_vars

IsPlain(text) == \A i \in 1..Len(text) : text[i] \notin {"*", "+"}

Dots(text) == Cardinality({i \in 1..Len(text) : text[i] = "."})

\* C12: for a pattern p.* (p without "*" and without regular-expression
\* operator) matchGlob is true exactly of the keys p.<segment> whose segment
\* holds no "."; a pattern p.** also matches keys with further segments; a
\* pattern whose only wildcards are single "*" matches no key with another
\* number of "." than the pattern has.
C12_SingleStarStaysInSegment ==
  output # <<>> =>
    LET key == input.key
        pattern == input.pattern
        n == Len(pattern)
    IN  /\ (n >= 2 /\ SubSeq(pattern, n - 1, n) = <<".", "*">>
              /\ IsPlain(SubSeq(pattern, 1, n - 2))) =>
             (output[1].value = (/\ Len(key) >= n - 1
                           /\ SubSeq(key, 1, n - 1) = SubSeq(pattern, 1, n - 1)
                           /\ \A i \in n..Len(key) : key[i] # "."))
        /\ (n >= 3 /\ SubSeq(pattern, n - 2, n) = <<".", "*", "*">>
              /\ IsPlain(SubSeq(pattern, 1, n - 3))) =>
             (output[1].value = (/\ Len(key) >= n - 2
                           /\ SubSeq(key, 1, n - 2) = SubSeq(pattern, 1, n - 2)))
        /\ (output[1].value /\ "+" \notin Range(pattern)
              /\ \A i \in 1..(n - 1) : SubSeq(pattern, i, i + 1) # <<"*", "*">>) =>
             Dots(key) = Dots(pattern)

\* a.* was matched against the key a.+ and matchGlob returned true
C12_Witness ==
  /\ output = <<[threw |-> FALSE, value |-> TRUE]>>
  /\ input.pattern = <<"a", ".", "*">>
  /\ input.key = <<"a", ".", "+">>

\* C13 as stated: for every pattern without "*", matchGlob(key, pattern)
\* is true exactly when key equals pattern (no other character of the
\* pattern is a wildcard or an operator, and nothing is thrown).
C13_WithoutStarOnlyEqualKeysMatch ==
  (output # <<>> /\ "*" \notin Range(input.pattern)) =>
    (~output[1].threw /\ output[1].value = (input.key = input.pattern))

\* ------------------------------------------------------------------------
\* parsers/ini.ts on its own: merge
\* ------------------------------------------------------------------------

MaxIniLines == 3

\* a blank line, a comment, a line without "=", assignments of A (plain, and
\* quoted with blanks around "="), of B, and of toString
IniLines ==
  { <<>>,
    <<"#", "c">>,
    <<"x">>,
    <<"A", "=", "1">>,
    <<"A", " ", "=", " ", "\"", "1", "\"">>,
    <<"B", "=", "2">>,
    <<"t", "o", "S", "t", "r", "i", "n", "g", "=", "1">> }

IniContents ==
  {joinLines(lines) : lines \in UNION {[1..n -> IniLines] : n \in 1..MaxIniLines}}

IniValues == {<<"1">>, <<"2">>, <<"9">>}

\* the key sets over A and B, in both orders
IniKeySets ==
  {<<>>}
  \cup {<<KV(k, v)>> : k \in {<<"A">>, <<"B">>}, v \in IniValues}
  \cup {<<KV(<<"A">>, v), KV(<<"B">>, w)>> : v \in IniValues, w \in IniValues}
  \cup {<<KV(<<"B">>, v), KV(<<"A">>, w)>> : v \in IniValues, w \in IniValues}

InitIni ==
  /\ Parked
  /\ \E content \in IniContents, keys \in IniKeySets :
       input = [content |-> content, keys |-> keys]
  /\ output = <<>>

IniMerge == Apply(iniMerge(input.content, input.keys))

NextIni == IniMerge

SpecIni == InitIni /\ [][NextIni]_vars

\* C14 as stated: iniParser.merge leaves every line that is blank, a
\* comment, without "=", or assigns a key not in keys, as it is and where it
\* is; merging an empty key set returns the content unchanged.
C14_IniMergeLeavesOtherLines ==
  output # <<>> =>
    LET lines  == splitLines(input.content)
        merged == splitLines(output[1])
    IN  /\ Len(merged) >= Len(lines)
        /\ \A i \in 1..Len(lines) :
             (~IsAssignment(lines[i]) \/ ~HasKey(input.keys, lineKey(lines[i]))) =>
               merged[i] = lines[i]
        /\ input.keys = <<>> => output[1] = input.content

\* C15 as stated: merging keys that are all assigned in the content with
\* exactly the value parse reports returns the content byte for byte.
C15_IniMergeOfCurrentValuesIsIdentity ==
  (/\ output # <<>>
   /\ \A i \in 1..Len(input.keys) :
        /\ HasKey(iniParse(input.content), input.keys[i].k)
        /\ Lookup(iniParse(input.content), input.keys[i].k) = input.keys[i].v) =>
    output[1] = input.content

\* ------------------------------------------------------------------------
\* parsers/index.ts on its own: getParser
\* ------------------------------------------------------------------------

MaxPathPieces == 3

PathPieces ==
  { <<".", "e", "n", "v">>, <<".", "j", "s", "o", "n">>, <<".", "J", "S", "O", "N">>,
    <<".", "y", "m", "l">>, <<".", "t", "o", "m", "l">>, <<"a">>, <<"/">>, <<".">> }

RECURSIVE Concat(_)
Concat(pieces) == IF pieces = <<>> THEN <<>> ELSE pieces[1] \o Concat(Tail(pieces))

ParserPaths ==
  {Concat(pieces) : pieces \in UNION {[1..n -> PathPieces] : n \in 1..MaxPathPieces}}

InitGetParser ==
  /\ Parked
  /\ \E path \in ParserPaths : input = [path |-> path]
  /\ output = <<>>

GetParser == Apply(getParser(input.path))

NextGetParser == GetParser

SpecGetParser == InitGetParser /\ [][NextGetParser]_vars

\* the last segment of a path, trailing "/" set aside when wanted
LastSegment(path, ignoreTrailing) ==
  LET p == IF ignoreTrailing THEN stripSlashes(path) ELSE path
  IN  CHOOSE seg \in {SubSeq(p, i, Len(p)) : i \in 1..(Len(p) + 1)} :
        /\ "/" \notin Range(seg)
        /\ (Len(seg) = Len(p) \/ p[Len(p) - Len(seg)] = "/")

\* the extensions of a file name: the suffixes that begin with its last "."
\* (none for a name that begins with that ".", or for "..")
ExtensionsOf(name) ==
  {ext \in {SubSeq(name, i, Len(name)) : i \in 2..Len(name)} :
     /\ ext[1] = "."
     /\ "." \notin Range(Tail(ext))
     /\ name # <<".", ".">>}

\* the parser a path gets when extensions are compared as foldCase makes them
ParserFor(path, foldCase(_)) ==
  IF startsWith(LastSegment(path, FALSE), <<".", "e", "n", "v">>) THEN "ini"
  ELSE LET exts == {foldCase(e) : e \in ExtensionsOf(LastSegment(path, TRUE))}
       IN  IF <<".", "e", "n", "v">> \in exts THEN "ini"
           ELSE IF <<".", "j", "s", "o", "n">> \in exts THEN "json"
           ELSE IF exts \cap {<<".", "y", "a", "m", "l">>, <<".", "y", "m", "l">>} # {}
                THEN "yaml"
           ELSE IF <<".", "t", "o", "m", "l">> \in exts THEN "toml"
           ELSE "null"

AsWritten(ext) == ext

\* C17 as stated: getParser returns the INI parser for a base name starting
\* with .env; otherwise the parser whose extensions contain the file's
\* extension exactly as written; otherwise none.
C17_GetParserByExactExtension ==
  output # <<>> => output[1] = ParserFor(input.path, AsWritten)

\* C17 amended: as stated, with the file's extension lower-cased before it
\* is looked up in the parsers' extension sets.
C17_GetParserByLowerCasedExtension ==
  output # <<>> => output[1] = ParserFor(input.path, toLowerCase)

\* getParser returned the INI parser for /.env.json
C17_Witness ==
  /\ input.path = <<"/", ".", "e", "n", "v", ".", "j", "s", "o", "n">>
  /\ output = <<"ini">>

\* ------------------------------------------------------------------------
\* Files without a parser
\* ------------------------------------------------------------------------

\* the payload built by the step for a path, if any
PayloadsOf(payloads, path) ==
  {i \in 1..Len(payloads) : payloads[i].path = path}

\* C18: a managed file for which no parser matches is never an error.  On
\* save the loop body builds a whole-file payload for it even when its
\* declaration lists keys, and the body does not end in an exception or a
\* failure because of it; on restore the payload of such a file ends neither
\* the command nor the target as failed, leaves the files alone when it
\* carries keys, and the loop goes on with the remaining payloads.
C18_NoParserIsNeverAnError ==
  [][ /\ (pc = "loop" /\ cmd = "save" /\ config' # NoConfig) =>
           \A i \in 1..Len(config'.files) :
             LET path == config'.files[i].path
             IN  (getParser(path) = "null" /\ IsDefined(fs[CurrentTarget][path])) =>
                   /\ PayloadsOf(filePayloads', path) # {}
                   /\ \A j \in PayloadsOf(filePayloads', path) :
                        /\ IsDefined(filePayloads'[j].content)
                        /\ ~IsDefined(filePayloads'[j].keys)
                   /\ pc' # "crashed"
                   /\ outcome'[CurrentTarget] \notin {"threw", "failed"}
      /\ (pc = "files" /\ cmd = "restore" /\ getParser(Head(queue).path) = "null") =>
           /\ pc' # "crashed"
           /\ outcome'[CurrentTarget] \notin {"threw", "failed"}
           /\ (~IsDefined(Head(queue).content) => fs' = fs)
           /\ IF Tail(queue) = <<>>
              THEN outcome'[CurrentTarget] = "restored"
              ELSE queue' = Tail(queue) /\ pc' = "files" ]_vars

\* a save has ended a target whose declaration lists keys for k.pem with a
\* whole-file payload, or a restore has ended a target as restored after a
\* keys payload for k.pem and a payload for .env that it wrote
C18_Witness ==
  /\ BodyEnded
  /\ IsDeclared(PPem)
  /\ \/ /\ cmd = "save"
        /\ IsDefined(Declaration(PPem).keys)
        /\ Len(The(Declaration(PPem).keys)) > 0
        /\ \E j \in PayloadsOf(filePayloads, PPem) : IsDefined(filePayloads[j].content)
        /\ outcome[LastTarget] = "saved"
     \/ /\ cmd = "restore"
        /\ outcome[LastTarget] = "restored"
        /\ fetched.shared = Some(RemoteFilesB)
        /\ <<LastTarget, PEnv>> \in written

\* ------------------------------------------------------------------------
\* jsonParser.merge as a function of its arguments
\* ------------------------------------------------------------------------

MaxMergeKeys == 2

NameA == <<"a">>

NameB == <<"b">>

NameC == <<"c">>

NameX == <<"x">>

NameY == <<"y">>

NameZ == <<"z">>

Dotted(first, second) == first \o <<".">> \o second

\* values of a document that are no mappings: a number, a string, an array
Leaves == {Num(<<"1">>), Str(<<"s">>), Arr(<<"1", ",", "2">>)}

\* the entry lists with some of the names, in their order, and values of the set
RECURSIVE EntriesOver(_, _)
EntriesOver(names, values) ==
  IF names = <<>> THEN {<<>>}
  ELSE LET rest == EntriesOver(Tail(names), values)
       IN  rest \cup {<<KV(names[1], value)>> \o r : value \in values, r \in rest}

\* mappings under a: x and y, each absent, a leaf, or a mapping with z
Inner ==
  {Obj(e) : e \in EntriesOver(<<NameX, NameY>>, Leaves \cup {Obj(<<KV(NameZ, Num(<<"1">>))>>)})}

\* documents: a is absent, a leaf or a mapping; b is absent, a number or a
\* mapping
Docs ==
  {Obj(ea \o eb) :
     ea \in {<<>>} \cup {<<KV(NameA, value)>> : value \in Leaves \cup Inner},
     eb \in {<<>>, <<KV(NameB, Num(<<"2">>))>>,
             <<KV(NameB, Obj(<<KV(NameX, Num(<<"1">>))>>))>>}}

\* the paths a merge is asked to set: top-level names, names in a mapping,
\* a name two levels down, a name below a name no document has
MergePaths ==
  {NameA, NameB, Dotted(NameA, NameX), Dotted(NameA, NameY),
   Dotted(Dotted(NameA, NameX), NameZ), Dotted(NameC, NameX)}

\* key maps of up to n distinct paths, in every order, each with the value 9
RECURSIVE KeyMaps(_)
KeyMaps(n) ==
  IF n = 0 THEN {<<>>}
  ELSE LET shorter == KeyMaps(n - 1)
       IN  shorter \cup
           {Append(q[1], KV(q[2], <<"9">>)) :
              q \in {r \in shorter \X MergePaths : Len(r[1]) = n - 1 /\ ~HasKey(r[1], r[2])}}

\* texts of the documents: indented by 2 or by 4, on one line without final
\* newline, or indented by 2 after an empty first line; the text of the
\* empty mapping has no indented line
JsonTexts ==
  {JsonText(value, layout[1], IF value.entries = <<>> THEN 0 ELSE layout[2], layout[3]) :
     value \in Docs,
     layout \in {<<0, 2, TRUE>>, <<0, 4, TRUE>>, <<0, 0, FALSE>>, <<1, 2, TRUE>>}}

InitJsonMerge ==
  /\ Parked
  /\ input \in [content : JsonTexts, keys : KeyMaps(MaxMergeKeys)]
  /\ output = <<>>

JsonMerge == Apply(jsonMerge(input.content, input.keys))

NextJsonMerge == JsonMerge

SpecJsonMerge == InitJsonMerge /\ [][NextJsonMerge]_vars

\* one path is the other, or leads to it
RECURSIVE IsPrefix(_, _)
IsPrefix(short, long) ==
  \/ short = <<>>
  \/ long # <<>> /\ Head(short) = Head(long) /\ IsPrefix(Tail(short), Tail(long))

OnePath(p, q) ==
  IsPrefix(splitDots(p), splitDots(q)) \/ IsPrefix(splitDots(q), splitDots(p))

\* no path of the key map leads to another one
Compatible(keys) ==
  \A i, j \in 1..Len(keys) : i # j => ~OnePath(keys[i].k, keys[j].k)

\* C19: jsonParser.merge(content, keys) sets each given dot-path to its
\* value, creating the intermediate mappings that are absent, and every
\* other key of the document keeps its previous value (the key maps are
\* those in which no path leads to another one).
C19_JsonMergeSetsPathsAndKeepsOthers ==
  (output # <<>> /\ Compatible(input.keys)) =>
    LET before == JSONparse(input.content)
        after  == JSONparse(output[1])
        old    == jsonParse(input.content)
    IN  /\ \A i \in 1..Len(input.keys) :
             At(after, input.keys[i].k) = Some(Str(input.keys[i].v))
        /\ \A i \in 1..Len(old) :
             (\A j \in 1..Len(input.keys) : ~OnePath(old[i].k, input.keys[j].k)) =>
               At(after, old[i].k) = At(before, old[i].k)

\* ------------------------------------------------------------------------
\* tomlParser.merge as a function of its arguments
\* ------------------------------------------------------------------------

\* a text as TOML.stringify writes the document, or one with comments
TomlTexts ==
  {TomlText(TomlEncoded(value), TRUE, FALSE) : value \in Docs}
    \cup {TomlText(value, FALSE, TRUE) : value \in Docs}

InitTomlMerge ==
  /\ Parked
  /\ input \in [content : TomlTexts, keys : KeyMaps(MaxMergeKeys)]
  /\ output = <<>>

TomlMerge == Apply(tomlMerge(input.content, input.keys))

NextTomlMerge == TomlMerge

SpecTomlMerge == InitTomlMerge /\ [][NextTomlMerge]_vars

\* C20: tomlParser.merge(content, keys) overwrites only the leaf keys named
\* in keys: every key of the document that is on the path of no named key
\* keeps its value, at every nesting level, and a named key that holds a
\* table or an array in the document holds the given value afterwards.
C20_TomlMergeKeepsSiblings ==
  output # <<>> =>
    LET before == TOMLparse(input.content)
        after  == TOMLparse(output[1])
        old    == tomlParse(input.content)
    IN  /\ \A i \in 1..Len(old) :
             (\A j \in 1..Len(input.keys) : ~OnePath(old[i].k, input.keys[j].k)) =>
               At(after, old[i].k) = At(before, old[i].k)
        /\ Compatible(input.keys) =>
             \A j \in 1..Len(input.keys) :
               LET held == At(before, input.keys[j].k)
               IN  (IsDefined(held) /\ isObject(The(held))) =>
                     At(after, input.keys[j].k) = Some(Str(input.keys[j].v))

\* a.x holds an array and is merged: a.y and b are as before
C20_Witness ==
  /\ output # <<>>
  /\ input.keys = <<KV(Dotted(NameA, NameX), <<"9">>)>>
  /\ At(TOMLparse(input.content), Dotted(NameA, NameX)) = Some(Arr(<<"1", ",", "2">>))
  /\ At(TOMLparse(input.content), Dotted(NameA, NameY)) = Some(Num(<<"1">>))
  /\ At(TOMLparse(output[1]), Dotted(NameA, NameX)) = Some(Str(<<"9">>))
  /\ At(TOMLparse(output[1]), Dotted(NameA, NameY)) = Some(Num(<<"1">>))
  /\ At(TOMLparse(output[1]), NameB) = Some(Num(<<"2">>))

\* ------------------------------------------------------------------------
\* extract, then merge of what was extracted, for each parser
\* ------------------------------------------------------------------------

\* pattern lists for the keys of a KEY=VALUE file: none, every key, the key A
FlatPatterns == {<<>>, << <<"*", "*">> >>, << <<"A">> >>}

\* pattern lists for dot-paths: none, every path, the names under a, the key b
DotPatterns ==
  {<<>>, << <<"*", "*">> >>, << <<"a", ".", "*">> >>, << <<"b">> >>}

\* texts of the documents: nested lines indented by 2 or by 4, with or
\* without comment lines before the first key and in the mapping under a
YamlTexts ==
  {YamlText(value,
            IF HasNested(value) THEN indent ELSE 0,
            {at \in comments : at = <<>> \/ (IsDefined(At(value, at))
                                              /\ The(At(value, at)).kind = "object")}) :
     value \in Docs, indent \in {2, 4}, comments \in SUBSET {<<>>, NameA}}

InitRoundTrip ==
  /\ Parked
  /\ \/ input \in [parser : {"ini"}, content : IniContents, patterns : FlatPatterns]
     \/ input \in [parser : {"json"}, content : JsonTexts, patterns : DotPatterns]
     \/ input \in [parser : {"yaml"}, content : YamlTexts, patterns : DotPatterns]
     \/ input \in [parser : {"toml"}, content : TomlTexts, patterns : DotPatterns]
  /\ output = <<>>

\* parser.extract(content, patterns)
ExtractKeys == Apply(parserExtract(input.parser, input.content, input.patterns))

\* parser.merge(content, extracted)
MergeBack ==
  /\ Len(output) = 1
  /\ output' = Append(output, parserMerge(input.parser, input.content, output[1]))
  /\ UNCHANGED <<cmd, options, env, exitCode, fs, machineCfg, vault, pc, idx, doc,
                 config, machineName, filePayloads, op, stage, item, fetched, queue,
                 outcome, log, written, input>>

NextRoundTrip == ExtractKeys \/ MergeBack

SpecRoundTrip == InitRoundTrip /\ [][NextRoundTrip]_vars

\* C16: for every parser, every content it can parse and every pattern
\* list, merge(content, extract(content, patterns)) returns the content.
C16_ExtractThenMergeIsIdentity ==
  Len(output) = 2 =>
    /\ input.parser = "yaml" => ~yamlMergeThrows(input.content, output[1])
    /\ output[2] = input.content

\* ------------------------------------------------------------------------
\* util/dotpath.ts on its own: flatten, then unflatten
\* ------------------------------------------------------------------------

\* nested mappings: the documents, those with a string or a mapping of
\* strings at b, and one whose only key has a dot in its name
NestedMappings ==
  Docs
  \cup {Obj(ea \o eb) :
          ea \in {<<>>} \cup {<<KV(NameA, value)>> : value \in Leaves \cup Inner},
          eb \in {<<KV(NameB, Str(<<"t">>))>>,
                  <<KV(NameB, Obj(<<KV(NameX, Str(<<"t">>))>>))>>}}
  \cup {Obj(<<KV(Dotted(NameA, NameX), Str(<<"s">>))>>)}

InitFlatten ==
  /\ Parked
  /\ input \in NestedMappings
  /\ output = <<>>

Unflatten == Apply(unflatten(flatten(input, <<>>)))

NextFlatten == Unflatten

SpecFlatten == InitFlatten /\ [][NextFlatten]_vars

\* some value of the mapping, at any depth, is of one of the kinds
RECURSIVE HasKind(_, _)
HasKind(value, kinds) ==
  \/ value.kind \in kinds
  \/ \E i \in 1..Len(value.entries) : HasKind(value.entries[i].v, kinds)

\* some key of the mapping, at any depth, has a dot in its name
RECURSIVE HasDottedKey(_)
HasDottedKey(value) ==
  \E i \in 1..Len(value.entries) :
    indexOf(value.entries[i].k, ".") # 0 \/ HasDottedKey(value.entries[i].v)

\* some mapping below the top of the mapping has no member
RECURSIVE HasEmptyMapping(_)
HasEmptyMapping(value) ==
  \E i \in 1..Len(value.entries) :
    LET member == value.entries[i].v
    IN  member.kind = "object" /\ (member.entries = <<>> \/ HasEmptyMapping(member))

InitYamlMerge ==
  /\ Parked
  /\ input \in [content : YamlTexts, keys : KeyMaps(MaxMergeKeys) \ {<<>>}]
  /\ output = <<>>

YamlMerge ==
  Apply([threw |-> yamlMergeThrows(input.content, input.keys),
         text  |-> yamlMerge(input.content, input.keys)])

NextYamlMerge == YamlMerge

SpecYamlMerge == InitYamlMerge /\ [][NextYamlMerge]_vars

MaxFiles == 2

\* what a member of files can be: a scalar, or a mapping with or without a
\* string path, whose keys are absent, a list, or something else
ParsedEntries ==
  {[Entry(PEnv, "undefined", <<>>, FALSE) EXCEPT !.isObject = FALSE, !.path = Undefined]}
  \cup {[Entry(PEnv, keysKind, IF keysKind = "array" THEN <<PatA>> ELSE <<>>, FALSE)
           EXCEPT !.path = path] :
          keysKind \in {"undefined", "array", "other"},
          path \in {Undefined, Some(PEnv), Some(PPem)}}

\* What YAML.parse returns for the file, [kind, obj].  As validateConfig sees
\* it, null and a scalar are no objects, and a sequence is an object without
\* version (0 stands for a version that is absent) and without files; a
\* mapping has version 1 or 2 or none, and files that is a list or is not.
ParsedDocuments ==
  {[kind |-> kind, obj |-> [Doc(<<>>) EXCEPT !.isObject = FALSE, !.version = 0,
                                             !.filesIsArray = FALSE]] :
     kind \in {"null", "scalar"}}
  \cup {[kind |-> "sequence",
         obj  |-> [Doc(<<>>) EXCEPT !.version = 0, !.filesIsArray = FALSE]]}
  \cup {[kind |-> "mapping",
         obj  |-> [Doc(<<>>) EXCEPT !.version = version, !.filesIsArray = FALSE]] :
          version \in {0, 1, 2}}
  \cup {[kind |-> "mapping", obj |-> [Doc(files) EXCEPT !.version = version]] :
          version \in {0, 1, 2},
          files \in UNION {[1..n -> ParsedEntries] : n \in 0..MaxFiles}}

InitConfig ==
  /\ Parked
  /\ input \in ParsedDocuments
  /\ output = <<>>

\* readConfig from "const parsed = YAML.parse(text)" on
ReadConfig == Apply(validateConfig(input.obj))

NextConfig == ReadConfig

SpecConfig == InitConfig /\ [][NextConfig]_vars

\* C23: reading a config raises a ConfigError and returns no config exactly
\* when the document is not a mapping, its version is not 1, files is not a
\* list, some member of files has no string path, or some keys is present
\* and not a list; every other document is accepted, with the path and the
\* keys of each member of files.
C23_ConfigErrorExactlyForMalformedDocuments ==
  output # <<>> =>
    LET obj       == input.obj
        malformed ==
          \/ input.kind # "mapping"
          \/ obj.version # 1
          \/ ~obj.filesIsArray
          \/ \E i \in 1..Len(obj.files) :
               \/ ~obj.files[i].isObject
               \/ ~IsDefined(obj.files[i].path)
               \/ obj.files[i].keysKind = "other"
    IN  /\ output[1].error = malformed
        /\ malformed => output[1].files = <<>>
        /\ ~malformed =>
             /\ Len(output[1].files) = Len(obj.files)
             /\ \A i \in 1..Len(obj.files) :
                  /\ output[1].files[i].path = The(obj.files[i].path)
                  /\ output[1].files[i].keys =
                       IF obj.files[i].keysKind = "array" THEN Some(obj.files[i].keys)
                       ELSE Undefined

\* a YAML sequence is refused, and so is a mapping of version 2 whose files
\* are well-formed
C23_Witness ==
  /\ output # <<>>
  /\ output[1].error
  /\ \/ input.kind = "sequence"
     \/ /\ input.kind = "mapping"
        /\ input.obj.version = 2
        /\ input.obj.files = <<Entry(PEnv, "array", <<PatA>>, FALSE)>>

\* ------------------------------------------------------------------------
\* Properties of the text jsonParser.merge writes
\* ------------------------------------------------------------------------

\* C24: jsonParser.merge writes the document with the indentation width of
\* the first indented line of the existing content, with 2 spaces when no
\* line of it is indented, and ends the text with a newline.
C24_JsonMergeKeepsIndentation ==
  output # <<>> =>
    /\ output[1].layout.newline
    /\ output[1].doc.entries # <<>> =>
         output[1].layout.indent =
           IF input.content.layout.indent > 0 THEN input.content.layout.indent ELSE 2

\* ------------------------------------------------------------------------
\* core/sync.ts on its own: uploads and fetches against one vault.  `input`
\* holds the call in progress, `output` what the finished calls did.
\* ------------------------------------------------------------------------

\* the calls of one run of the model
MaxUploads == 3

\* the items a call may name: bwrss:r, bwrss:rr, bwrss:r@m1
UploadTargets ==
  { [name |-> canonicalName(1), machine |-> Undefined],
    [name |-> canonicalName(2), machine |-> Undefined],
    [name |-> canonicalName(1), machine |-> Some(<<"m", "1">>)] }

UploadFiles == {RemoteFilesA, RemoteFilesM}

\* the item name a call looks for and creates
callItemName(target) ==
  IF IsDefined(target.machine)
  THEN machineNoteName(target.name, The(target.machine))
  ELSE noteName(target.name)

\* findBwrssItem / findBwrssItemForMachine, by the kind of call
findItemOf(items, target) ==
  IF IsDefined(target.machine)
  THEN findBwrssItemForMachine(items, target.name, The(target.machine))
  ELSE findBwrssItem(items, target.name)

\* uploadPayload / uploadMachinePayload with setAttachment, one bw command
\* at a time: the vault and the call after the command at call.op succeeded
uploadStep(items, call) ==
  LET metadata == buildMetadata(call.target.name, call.files)
      payload  == buildPayload(call.target.name, call.files)
  IN  CASE call.op = "list" ->
             LET found == findItemOf(items, call.target)
             IN  [items |-> items,
                  call  |-> [call EXCEPT !.item = found,
                                         !.op = IF found # 0 THEN "edit" ELSE "create"]]
        [] call.op = "edit" ->
             [items |-> updateItemNotes(items, call.item, metadata),
              call  |-> [call EXCEPT !.op = "get"]]
        [] call.op = "create" ->
             [items |-> createSecureNote(items, callItemName(call.target), metadata),
              call  |-> [call EXCEPT !.item = Len(items) + 1, !.op = "get"]]
        [] call.op = "get" ->
             [items |-> items,
              call  |-> [call EXCEPT !.op = IF items[call.item].attachments # <<>>
                                            THEN "delete" ELSE "attach"]]
        [] call.op = "delete" ->
             [items |-> deleteAttachment(items, call.item),
              call  |-> [call EXCEPT !.op = "attach"]]
        [] call.op = "attach" ->
             [items |-> createAttachment(items, call.item, payload),
              call  |-> [call EXCEPT !.op = "done"]]

\* fetchPayload / fetchMachinePayload: the item read (0 when none) and the
\* files returned (null as the empty optional)
fetchOf(items, target) ==
  LET found == findItemOf(items, target)
  IN  IF found = 0 \/ items[found].attachments = <<>>
      THEN [item |-> found, files |-> Undefined]
      ELSE [item |-> found, files |-> Some(items[found].attachments[1].files)]

NoCall == [target |-> [name |-> canonicalName(1), machine |-> Undefined],
           files |-> RemoteFilesA, op |-> "none", item |-> 0, had |-> FALSE]

NoRead == [item |-> 0, files |-> Undefined]

InitUpload ==
  /\ Parked
  /\ input = <<>>
  /\ output = <<[calls  |-> 0,
                 last   |-> [t \in UploadTargets |-> Undefined],
                 result |-> "none",
                 call   |-> NoCall,
                 read   |-> NoRead]>>

UploadFrame ==
  UNCHANGED <<cmd, options, env, exitCode, fs, machineCfg, pc, idx, doc, config,
              machineName, filePayloads, op, stage, item, fetched, queue, outcome,
              log, written>>

\* uploadPayload or uploadMachinePayload is called
BeginUpload ==
  /\ input = <<>>
  /\ output[1].calls < MaxUploads
  /\ \E target \in UploadTargets, files \in UploadFiles :
       LET id == findItemOf(vault, target)
       IN  input' = <<[target |-> target, files |-> files, op |-> "list", item |-> 0,
                       had |-> id # 0 /\ vault[id].attachments # <<>>]>>
  /\ output' = <<[output[1] EXCEPT !.calls = @ + 1, !.result = "none", !.call = NoCall,
                                   !.read = NoRead]>>
  /\ UNCHANGED vault
  /\ UploadFrame

\* the bw command of the call succeeds
UploadOk ==
  /\ input # <<>>
  /\ LET next == uploadStep(vault, input[1])
     IN  /\ vault' = next.items
         /\ IF next.call.op = "done"
            THEN /\ input' = <<>>
                 /\ output' = <<[output[1] EXCEPT
                                   !.last[next.call.target] = Some(next.call.files),
                                   !.result = "ok",
                                   !.call = next.call]>>
            ELSE /\ input' = <<next.call>>
                 /\ UNCHANGED output
  /\ UploadFrame

\* the bw command of the call fails: BitwardenError leaves the call
UploadFail ==
  /\ input # <<>>
  /\ input' = <<>>
  /\ output' = <<[output[1] EXCEPT !.last[input[1].target] = Undefined,
                                   !.result = "failed",
                                   !.call = input[1]]>>
  /\ UNCHANGED vault
  /\ UploadFrame

\* fetchPayload or fetchMachinePayload runs
Fetch ==
  /\ input = <<>>
  /\ output[1].result # "fetched"
  /\ \E target \in UploadTargets :
       output' = <<[output[1] EXCEPT !.result = "fetched",
                                     !.call = [NoCall EXCEPT !.target = target],
                                     !.read = fetchOf(vault, target)]>>
  /\ UNCHANGED <<vault, input>>
  /\ UploadFrame

NextUpload == BeginUpload \/ UploadOk \/ UploadFail \/ Fetch

SpecUpload == InitUpload /\ [][NextUpload]_vars

\* the ids of the items with a name
ItemsNamed(items, name) == {i \in 1..Len(items) : items[i].name = name}

PathsOf(payload) == [i \in 1..Len(payload.files) |-> payload.files[i].path]

\* C28: after a call that failed on an item which held an attachment when
\* the call began, the item still holds an attachment and its notes list
\* the files of that attachment.
C28_FailedUploadKeepsSavedData ==
  (input = <<>> /\ output[1].result = "failed" /\ output[1].call.had) =>
    LET id == findItemOf(vault, output[1].call.target)
    IN  /\ id # 0
        /\ vault[id].attachments # <<>>
        /\ vault[id].notes.files = PathsOf(vault[id].attachments[1])

\* every search by a call's name gives no item or the item with exactly
\* that name
FindIsExact(items) ==
  \A target \in UploadTargets :
    LET id == findItemOf(items, target)
    IN  id # 0 => items[id].name = callItemName(target)

\* C30: findBwrssItem and findBwrssItemForMachine return no item or the one
\* named exactly bwrss:<name>, bwrss:<name>@<machine>; a call changes or
\* creates only the item with exactly its own name, and a fetch reads only
\* that item, also when the vault holds the machine item of the name and
\* the item of a longer name.
C30_CallsTouchOnlyTheExactItem ==
  [][ /\ FindIsExact(vault')
      /\ Len(vault') >= Len(vault)
      /\ \A i \in 1..Len(vault') :
           (i > Len(vault) \/ vault'[i] # vault[i]) =>
             /\ input # <<>>
             /\ vault'[i].name = callItemName(input[1].target)
      /\ (output'[1].result = "fetched" /\ output'[1].read.item # 0) =>
           vault[output'[1].read.item].name = callItemName(output'[1].call.target)
    ]_vars

\* a fetch of the shared item of r has read it from a vault that lists the
\* item of rr and the machine item of r before it
C30_Witness ==
  /\ output[1].result = "fetched"
  /\ output[1].call.target = [name |-> canonicalName(1), machine |-> Undefined]
  /\ Len(vault) = 3
  /\ output[1].read.item = 3
  /\ IsDefined(output[1].read.files)
  /\ vault[3].name = noteName(canonicalName(1))

\* ------------------------------------------------------------------------
\* Restore and the paths the local config lists
\* ------------------------------------------------------------------------

\* C26: in a restore (repository or home), a step creates or changes a
\* managed file only while it handles a payload of the current target whose
\* path the local config lists, and only the file at that path; the file at
\* the path of a payload the config does not list is left as it was.
C26_RestoreWritesOnlyDeclaredFiles ==
  [][ ~IsSave(cmd) =>
        \A t \in AllTargets : \A p \in Paths :
          (fs'[t][p] # fs[t][p] \/ (<<t, p>> \in written' /\ <<t, p>> \notin written)) =>
            /\ pc = "files"
            /\ t = CurrentTarget
            /\ p = Head(queue).path
            /\ IsDeclared(p) ]_vars

\* a restore has merged the keys of the listed .env and passed over the
\* whole-file payload of a .pem the config does not list: no .pem exists
C26_Witness ==
  /\ cmd = "restore"
  /\ BodyEnded
  /\ outcome[LastTarget] = "restored"
  /\ ~IsDeclared(PPem)
  /\ IsDefined(fetched.shared)
  /\ \E i \in 1..Len(The(fetched.shared)) :
       /\ The(fetched.shared)[i].path = PPem
       /\ IsDefined(The(fetched.shared)[i].content)
  /\ fs[LastTarget][PPem] = Undefined
  /\ <<LastTarget, PEnv>> \in written

\* ------------------------------------------------------------------------
\* core/sync.ts on its own: mergePayloads of lists that share paths
\* ------------------------------------------------------------------------

\* the payloads of a list of path numbers, all with the same content
MergeInput(list, content) ==
  [i \in 1..Len(list) |->
     Payload(SyncPath(list[i]), Some(content), Undefined, Some(420), Undefined)]

InitMerge ==
  /\ Parked
  /\ \E shared \in SyncPayloadLists, machine \in SyncPayloadLists :
       input = [shared  |-> MergeInput(shared, <<"s">>),
                machine |-> MergeInput(machine, <<"m">>)]
  /\ output = <<>>

MergePayloads == Apply(mergePayloads(input.shared, input.machine))

NextMerge == MergePayloads

SpecMerge == InitMerge /\ [][NextMerge]_vars

PathsIn(payloads) == {payloads[i].path : i \in 1..Len(payloads)}

\* C27: for two lists with distinct paths each, the merged list has exactly
\* one payload for every path of either list and no other; it is the
\* machine payload when the machine list has the path, else the shared one.
C27_MergeIsOnePayloadPerPathMachineFirst ==
  output # <<>> =>
    LET merged == output[1]
    IN  /\ PathsIn(merged) = PathsIn(input.shared) \cup PathsIn(input.machine)
        /\ Len(merged) = Cardinality(PathsIn(merged))
        /\ \A j \in 1..Len(merged) :
             IF merged[j].path \in PathsIn(input.machine)
             THEN \E i \in 1..Len(input.machine) : merged[j] = input.machine[i]
             ELSE \E i \in 1..Len(input.shared) : merged[j] = input.shared[i]

\* lists with a path in both, a path in the shared list only and a path in
\* the machine list only were merged
C27_Witness ==
  /\ output # <<>>
  /\ PathsIn(input.shared) \cap PathsIn(input.machine) # {}
  /\ PathsIn(input.shared) \ PathsIn(input.machine) # {}
  /\ PathsIn(input.machine) \ PathsIn(input.shared) # {}

\* ------------------------------------------------------------------------
\* iniParser: merge followed by parse
\* ------------------------------------------------------------------------

\* C29: parse of the merged content gives, for every key of the merged key
\* map, the value of the map, also when the content assigns the key on more
\* than one line.
C29_IniParseReadsBackMergedValues ==
  output # <<>> =>
    \A i \in 1..Len(input.keys) :
      /\ HasKey(iniParse(output[1]), input.keys[i].k)
      /\ Lookup(iniParse(output[1]), input.keys[i].k) = input.keys[i].v

====
